---- MODULE Spec2Model ----
(***************************************************************************)
(* Model of the Python examples of the Pamir AI e-ink driver package:      *)
(*   - the bit-packed framebuffer canvas of eink_common.EInkDisplay        *)
(*     (draw_pixel, get_pixel, draw_image, clear),                         *)
(*   - the partial-area geometry routines of the EInkDisplay variants,     *)
(*   - the command sequences the example programs send to the device       *)
(*     (eink_recovery.reset_display, gif.display_gif/main,                 *)
(*     eink_demo.demo_partial_update, eink_reader.EInkReader               *)
(*     .run_interactive, eink_weather.WeatherDashboard.run,                *)
(*     eink_image.main),                                                   *)
(*   - the life of a session object: geometry discovery, close, requests   *)
(*     on the closed object.                                               *)
(*                                                                         *)
(* The kernel driver behind the ioctl interface is not part of the Python  *)
(* sources; its reaction to a command (DeviceMode, DeviceSleeping) follows *)
(* the written specification of the update-mode state machine.             *)
(***************************************************************************)
EXTENDS Integers, Sequences, FiniteSets, TLC

VARIABLES
    prog,       \* which program / routine this behaviour runs
    pc,         \* position in it
    width,      \* EInkDisplay.width
    height,     \* EInkDisplay.height
    fb,         \* the mapped framebuffer: byte index -> 0..255
    req,        \* the inputs: call arguments, command-line options
    res,        \* what the routine returned / how the program ended
    log,        \* every device command and buffer operation, in order
    mode,       \* the update mode the device is in
    sleeping,   \* the device is in deep sleep
    fb_file,    \* EInkDisplay.fb_file is set (device file open)
    fb_mmap,    \* EInkDisplay.fb_mmap is set (mapping open)
    loc         \* the local variables of the running program

vars == <<prog, pc, width, height, fb, req, res, log, mode, sleeping,
          fb_file, fb_mmap, loc>>

----------------------------------------------------------------------------
(* Bounds of the model.                                                    *)

MaxWidth == 9
MaxHeight == 2
MaxGeomW == 12
MaxGeomH == 2
MaxLoops == 2
MaxFrames == 3
MaxPasses == 2
MaxPages == 2
MaxCmds == 2
WideWidth == 24
TallHeight == 4

(* Program constants.                                                      *)

EINK_DEFAULT_WIDTH == 128
EINK_DEFAULT_HEIGHT == 250
EPD_MODE_FULL == 0
EPD_MODE_PARTIAL == 1
EPD_MODE_BASE_MAP == 2

----------------------------------------------------------------------------
(* Helpers.                                                                *)

Min(a, b) == IF a <= b THEN a ELSE b
Max(a, b) == IF a >= b THEN a ELSE b

\* (current >> i) & 1
BitOf(b, i) == (b \div (2 ^ i)) % 2

\* current &= ~(1 << bit_idx)
ClearBit(b, i) == b - BitOf(b, i) * (2 ^ i)

\* current |= 1 << bit_idx
SetBit(b, i) == b + (1 - BitOf(b, i)) * (2 ^ i)

----------------------------------------------------------------------------
(* The bit-packed canvas (eink_common.EInkDisplay).                        *)

\* self.bytes_per_line = (self.width + 7) // 8
bytes_per_line(w) == (w + 7) \div 8

\* The size computed from the pixel count, rounded down.
fb_size_floor(w, h) == (w * h) \div 8

\* fb_size = self.bytes_per_line * self.height
fb_size(w, h) == bytes_per_line(w) * h

\* A mapping of fb_size bytes, every byte equal to b.
FilledBuffer(w, h, b) == [i \in 0 .. (fb_size(w, h) - 1) |-> b]

\* A clear that writes the colour value itself as the fill byte.
clear_with_color_byte(buf, color) == [i \in DOMAIN buf |-> color]

\* clear(color): fill_byte = 0xFF if color else 0x00, written over the mapping
clear(buf, color) == [i \in DOMAIN buf |-> IF color # 0 THEN 255 ELSE 0]

\* The bit index counted from the wrong end of the byte.
bit_idx_lsb_first(x) == x % 8

\* bit_idx = 7 - (x % 8)
bit_idx(x) == 7 - (x % 8)

\* y * self.bytes_per_line + (x // 8)
byte_idx(w, x, y) == y * bytes_per_line(w) + (x \div 8)

\* draw_pixel with the two colours the wrong way round.
draw_pixel_inverted(buf, w, h, x, y, color) ==
    IF x < 0 \/ x >= w \/ y < 0 \/ y >= h
    THEN buf
    ELSE LET i == byte_idx(w, x, y)
             current == buf[i]
         IN  [buf EXCEPT ![i] = IF color = 0
                                THEN SetBit(current, bit_idx(x))
                                ELSE ClearBit(current, bit_idx(x))]

\* draw_pixel(x, y, color): out of bounds returns; else read, update bit, write
draw_pixel(buf, w, h, x, y, color) ==
    IF x < 0 \/ x >= w \/ y < 0 \/ y >= h
    THEN buf
    ELSE LET i == byte_idx(w, x, y)
             current == buf[i]
         IN  [buf EXCEPT ![i] = IF color = 0
                                THEN ClearBit(current, bit_idx(x))
                                ELSE SetBit(current, bit_idx(x))]

\* get_pixel with the bit taken from the wrong end of the byte
get_pixel_lsb_first(buf, w, h, x, y) ==
    IF x < 0 \/ x >= w \/ y < 0 \/ y >= h
    THEN [some |-> FALSE, val |-> 0]
    ELSE [some |-> TRUE, val |-> BitOf(buf[byte_idx(w, x, y)], x % 8)]

\* get_pixel(x, y): None out of bounds, else 1 if the bit is set, else 0
get_pixel(buf, w, h, x, y) ==
    IF x < 0 \/ x >= w \/ y < 0 \/ y >= h
    THEN [some |-> FALSE, val |-> 0]
    ELSE [some |-> TRUE, val |-> BitOf(buf[byte_idx(w, x, y)], bit_idx(x))]

\* pixels[px, py] of a mode "1" image: 0 (black) or 255 (white)
Pixel(img, px, py) ==
    CASE img.pat = "black" -> 0
      [] img.pat = "white" -> 255
      [] OTHER -> IF (px + py) % 2 = 0 THEN 0 ELSE 255

\* The pixel loop of draw_image from its k-th iteration on (py outer, px
\* inner).  mmap.seek raises ValueError for a position outside the mapping,
\* which ends the loop with the exception.
RECURSIVE draw_image_from(_, _, _, _, _, _, _)
draw_image_from(buf, w, h, img, x, y, k) ==
    LET nw == Min(img.w, w - x)
        nh == Min(img.h, h - y)
    IN  IF nw <= 0 \/ nh <= 0 \/ k >= nw * nh
        THEN [buf |-> buf, raised |-> FALSE]
        ELSE LET px == k % nw
                 py == k \div nw
                 fb_x == x + px
                 fb_y == y + py
                 i == byte_idx(w, fb_x, fb_y)
             IN  IF i < 0 \/ i >= fb_size(w, h)
                 THEN [buf |-> buf, raised |-> TRUE]
                 ELSE draw_image_from(
                        [buf EXCEPT ![i] =
                            IF Pixel(img, px, py) = 0
                            THEN ClearBit(buf[i], bit_idx(fb_x))
                            ELSE SetBit(buf[i], bit_idx(fb_x))],
                        w, h, img, x, y, k + 1)

\* draw_image(image, x, y)
draw_image(buf, w, h, img, x, y) == draw_image_from(buf, w, h, img, x, y, 0)

----------------------------------------------------------------------------
(* Canvas routines applied to drawn inputs.                                *)

InitBytes == {0, 255, 165}
Patterns == {"black", "white", "checker"}

NoDevice ==
    /\ log = <<>>
    /\ mode = EPD_MODE_FULL
    /\ sleeping = FALSE
    /\ fb_file = TRUE
    /\ fb_mmap = TRUE
    /\ loc = [none |-> TRUE]

CanvasRequests(w, h) ==
    [op : {"draw_pixel"}, x : (-1) .. w, y : (-1) .. h, color : {0, 1, 255}]
    \cup [op : {"get_pixel"}, x : (-1) .. w, y : (-1) .. h]
    \cup [op : {"clear"}, color : {0, 1, 255}]
    \cup [op : {"clear_twice"}, color : {0, 1, 255}, color2 : {0, 1, 255}]
    \cup [op : {"draw_image"}, x : (-1) .. w, y : (-1) .. h,
          img : [w : {1, w, w + 1}, h : {1, h + 1}, pat : Patterns]]

\* Two draw_pixel calls in a row on the default geometry: corners and byte
\* boundaries of the panel.
PixelArgs ==
    [x : {0, 7, 8, EINK_DEFAULT_WIDTH - 1}, y : {0, EINK_DEFAULT_HEIGHT - 1},
     color : {0, 1}]
PixelPairRequests == [op : {"draw_pixels"}, first : PixelArgs, second : PixelArgs]

InitCanvas ==
    /\ prog = "canvas"
    /\ pc = "call"
    /\ \/ /\ width \in 1 .. MaxWidth
          /\ height \in 1 .. MaxHeight
          /\ \E b \in InitBytes, r \in CanvasRequests(width, height) :
                /\ fb = FilledBuffer(width, height, b)
                /\ req = r @@ [fill |-> b]
       \/ /\ width = EINK_DEFAULT_WIDTH
          /\ height = EINK_DEFAULT_HEIGHT
          /\ \E b \in InitBytes, r \in PixelPairRequests :
                /\ fb = FilledBuffer(width, height, b)
                /\ req = r @@ [fill |-> b]
    /\ res = [some |-> FALSE, val |-> 0, raised |-> FALSE]
    /\ NoDevice

DrawPixel ==
    /\ prog = "canvas" /\ pc = "call" /\ req.op = "draw_pixel"
    /\ fb' = draw_pixel(fb, width, height, req.x, req.y, req.color)
    /\ pc' = "drawn"
    /\ UNCHANGED <<prog, width, height, req, res, log, mode, sleeping,
                   fb_file, fb_mmap, loc>>

\* draw_pixel(first), then draw_pixel(second)
DrawPixelPair ==
    /\ prog = "canvas" /\ req.op = "draw_pixels"
    /\ \/ /\ pc = "call"
          /\ fb' = draw_pixel(fb, width, height,
                              req.first.x, req.first.y, req.first.color)
          /\ pc' = "first"
       \/ /\ pc = "first"
          /\ fb' = draw_pixel(fb, width, height,
                              req.second.x, req.second.y, req.second.color)
          /\ pc' = "done"
    /\ UNCHANGED <<prog, width, height, req, res, log, mode, sleeping,
                   fb_file, fb_mmap, loc>>

\* get_pixel, on its own or right after draw_pixel at the same coordinates
GetPixel ==
    /\ prog = "canvas"
    /\ \/ pc = "call" /\ req.op = "get_pixel"
       \/ pc = "drawn" /\ req.op = "draw_pixel"
    /\ res' = get_pixel(fb, width, height, req.x, req.y) @@ [raised |-> FALSE]
    /\ pc' = "done"
    /\ UNCHANGED <<prog, width, height, fb, req, log, mode, sleeping,
                   fb_file, fb_mmap, loc>>

\* clear(color), and for a clear_twice request a second clear(color2) after it
Clear ==
    /\ prog = "canvas"
    /\ \/ /\ pc = "call" /\ req.op = "clear"
          /\ fb' = clear(fb, req.color)
          /\ pc' = "done"
       \/ /\ pc = "call" /\ req.op = "clear_twice"
          /\ fb' = clear(fb, req.color)
          /\ pc' = "cleared"
       \/ /\ pc = "cleared" /\ req.op = "clear_twice"
          /\ fb' = clear(fb, req.color2)
          /\ pc' = "done"
    /\ UNCHANGED <<prog, width, height, req, res, log, mode, sleeping,
                   fb_file, fb_mmap, loc>>

DrawImage ==
    /\ prog = "canvas" /\ pc = "call" /\ req.op = "draw_image"
    /\ LET r == draw_image(fb, width, height, req.img, req.x, req.y)
       IN  /\ fb' = r.buf
           /\ res' = [res EXCEPT !.raised = r.raised]
    /\ pc' = "done"
    /\ UNCHANGED <<prog, width, height, req, log, mode, sleeping,
                   fb_file, fb_mmap, loc>>

NextCanvas == DrawPixel \/ DrawPixelPair \/ GetPixel \/ Clear \/ DrawImage

SpecCanvas == InitCanvas /\ [][NextCanvas]_vars

----------------------------------------------------------------------------
(* Partial-area geometry.  A routine's outcome: the exception it raised    *)
(* ("none" when it returned) and the rectangle it passed to the            *)
(* SET_PARTIAL_AREA ioctl, if it got that far.                             *)

Rect(x, y, w, h) == [x |-> x, y |-> y, w |-> w, h |-> h]

Raised(e) == [raised |-> e, sent |-> FALSE, rect |-> Rect(0, 0, 0, 0)]
Sent(r) == [raised |-> "none", sent |-> TRUE, rect |-> r]

\* struct.pack("HHHH", ...) / struct.pack("IIII", ...): struct.error for a
\* negative value (and for one beyond the field, which the bounds exclude)
Pack(r) ==
    IF r.x < 0 \/ r.y < 0 \/ r.w < 0 \/ r.h < 0
    THEN Raised("struct.error")
    ELSE Sent(r)

\* (x // 8) * 8
align_down(x) == (x \div 8) * 8

\* ((width + 7) // 8) * 8
align_up(w) == ((w + 7) \div 8) * 8

\* eink_common.validate_byte_alignment(x, width) -> (aligned_x, aligned_width)
validate_byte_alignment(x, w) ==
    [x |-> IF x % 8 # 0 THEN align_down(x) ELSE x,
     w |-> IF w % 8 # 0 THEN align_up(w) ELSE w]

\* eink_common.EInkDisplay.set_partial_area
common_set_partial_area(cw, ch, x, y, w, h) ==
    IF x % 8 # 0 \/ w % 8 # 0
    THEN Raised("ValueError")
    ELSE LET x1 == Max(0, Min(x, cw - 8))
             y1 == Max(0, Min(y, ch - 1))
             w1 == Max(8, Min(w, cw - x1))
             h1 == Max(1, Min(h, ch - y1))
         IN  Pack(Rect(x1, y1, w1, h1))

\* set_partial_area of gif.py with the width rounded down to a multiple of 8
gif_set_partial_area_width_down(cw, ch, x, y, w, h) ==
    LET x1 == align_down(x)
        w1 == (w \div 8) * 8
        w2 == IF x1 + w1 > cw THEN cw - x1 ELSE w1
        h2 == IF y + h > ch THEN ch - y ELSE h
    IN  Pack(Rect(x1, y, w2, h2))

\* gif.EInkDisplay.set_partial_area
gif_set_partial_area(cw, ch, x, y, w, h) ==
    LET x1 == align_down(x)
        w1 == align_up(w)
        w2 == IF x1 + w1 > cw THEN cw - x1 ELSE w1
        h2 == IF y + h > ch THEN ch - y ELSE h
    IN  Pack(Rect(x1, y, w2, h2))

\* eink_demo.EInkDisplay.set_partial_area
demo_set_partial_area(cw, ch, x, y, w, h) ==
    IF x % 8 # 0 \/ w % 8 # 0
    THEN Raised("ValueError")
    ELSE Pack(Rect(x, y, w, h))

\* eink_reader.EInkReader.set_partial_area
reader_set_partial_area(cw, ch, x, y, w, h) ==
    Pack(Rect(align_down(x), y, (w \div 8) * 8, h))

GeomRequests(cw, ch) ==
    [op : {"common", "gif", "demo", "reader", "validate"},
     x : (-1) .. cw,
     y : {-1, 0, ch - 1, ch},
     w : (0 .. (cw + 1)) \cup {16},
     h : {0, 1, ch, ch + 1}]

InitGeom ==
    /\ prog = "geom"
    /\ pc = "call"
    /\ width \in 1 .. MaxGeomW
    /\ height \in 1 .. MaxGeomH
    /\ req \in GeomRequests(width, height)
    /\ fb = FilledBuffer(1, 1, 255)
    /\ res = Raised("none")
    /\ NoDevice

\* validate_byte_alignment(x, width): the caller goes on with the aligned pair
ValidateByteAlignment ==
    /\ prog = "geom" /\ pc = "call" /\ req.op = "validate"
    /\ LET a == validate_byte_alignment(req.x, req.w)
       IN  req' = [req EXCEPT !.x = a.x, !.w = a.w]
    /\ pc' = "aligned"
    /\ UNCHANGED <<prog, width, height, fb, res, log, mode, sleeping,
                   fb_file, fb_mmap, loc>>

\* EInkDisplay.set_partial_area of eink_common, called with the request as
\* it is or with what validate_byte_alignment returned
SetPartialAreaCommon ==
    /\ prog = "geom"
    /\ \/ pc = "call" /\ req.op = "common"
       \/ pc = "aligned" /\ req.op = "validate"
    /\ res' = common_set_partial_area(width, height,
                                      req.x, req.y, req.w, req.h)
    /\ pc' = "done"
    /\ UNCHANGED <<prog, width, height, fb, req, log, mode, sleeping,
                   fb_file, fb_mmap, loc>>

SetPartialAreaGif ==
    /\ prog = "geom" /\ pc = "call" /\ req.op = "gif"
    /\ res' = gif_set_partial_area(width, height, req.x, req.y, req.w, req.h)
    /\ pc' = "done"
    /\ UNCHANGED <<prog, width, height, fb, req, log, mode, sleeping,
                   fb_file, fb_mmap, loc>>

SetPartialAreaDemo ==
    /\ prog = "geom" /\ pc = "call" /\ req.op = "demo"
    /\ res' = demo_set_partial_area(width, height, req.x, req.y, req.w, req.h)
    /\ pc' = "done"
    /\ UNCHANGED <<prog, width, height, fb, req, log, mode, sleeping,
                   fb_file, fb_mmap, loc>>

SetPartialAreaReader ==
    /\ prog = "geom" /\ pc = "call" /\ req.op = "reader"
    /\ res' = reader_set_partial_area(width, height,
                                      req.x, req.y, req.w, req.h)
    /\ pc' = "done"
    /\ UNCHANGED <<prog, width, height, fb, req, log, mode, sleeping,
                   fb_file, fb_mmap, loc>>

NextGeom ==
    \/ ValidateByteAlignment
    \/ SetPartialAreaCommon
    \/ SetPartialAreaGif
    \/ SetPartialAreaDemo
    \/ SetPartialAreaReader

SpecGeom == InitGeom /\ [][NextGeom]_vars

----------------------------------------------------------------------------
(* The device channel.  A command is an ioctl on fb_file; it succeeds or   *)
(* raises OSError.  The log keeps, for every command, the mode and the     *)
(* sleep state the device was in when the command was issued, and whether  *)
(* a failure reached the caller of the method that issued it.  Writes to   *)
(* the mapped buffer and the waits between frames are logged too, with     *)
(* dev = FALSE.                                                            *)

\* The mode the device is in after a command: a successful set-update-mode
\* puts it in that mode, a successful reset in Full; a failed command
\* changes nothing.
DeviceMode(m, c, a, ok) ==
    IF ~ok THEN m
    ELSE IF c = "set_mode" THEN a
    ELSE IF c = "reset" THEN EPD_MODE_FULL
    ELSE m

\* Deep sleep lasts until the device is put back in Full mode.
DeviceSleeping(s, c, a, ok) ==
    IF ~ok THEN s
    ELSE IF c = "deep_sleep" THEN TRUE
    ELSE IF c = "set_mode" /\ a = EPD_MODE_FULL THEN FALSE
    ELSE s

NoRect == Rect(0, 0, 0, 0)

Dev == [mode |-> mode, sleeping |-> sleeping, log |-> log]

\* fcntl.ioctl(self.fb_file, <command>, <argument>)
Ioctl(d, c, a, r, ok, reported) ==
    [mode |-> DeviceMode(d.mode, c, a, ok),
     sleeping |-> DeviceSleeping(d.sleeping, c, a, ok),
     log |-> Append(d.log, [cmd |-> c, arg |-> a, rect |-> r, ok |-> ok,
                            reported |-> reported, dev |-> TRUE,
                            m |-> d.mode, asleep |-> d.sleeping])]

\* A write to the mapped buffer (clear, draw_image, a page).
BufferOp(d, c, a) ==
    [d EXCEPT !.log = Append(d.log, [cmd |-> c, arg |-> a, rect |-> NoRect,
                                     ok |-> TRUE, reported |-> FALSE,
                                     dev |-> FALSE,
                                     m |-> d.mode, asleep |-> d.sleeping])]

\* A draw_image call: the buffer write, with where and how large it was.
BlitOp(d, c, a, r) ==
    [d EXCEPT !.log = Append(d.log, [cmd |-> c, arg |-> a, rect |-> r,
                                     ok |-> TRUE, reported |-> FALSE,
                                     dev |-> FALSE,
                                     m |-> d.mode, asleep |-> d.sleeping])]

SetDev(d) ==
    /\ mode' = d.mode
    /\ sleeping' = d.sleeping
    /\ log' = d.log

\* set_update_mode that catches the OSError and only prints a warning
set_update_mode_swallowed(d, m, ok) ==
    [d |-> Ioctl(d, "set_mode", m, NoRect, ok, FALSE), raised |-> FALSE]

\* EInkDisplay.set_update_mode(mode): the OSError of the ioctl propagates
set_update_mode(d, m, ok) ==
    [d |-> Ioctl(d, "set_mode", m, NoRect, ok, ~ok), raised |-> ~ok]

\* EInkDisplay.update_display()
update_display(d, ok) ==
    [d |-> Ioctl(d, "update", 0, NoRect, ok, ~ok), raised |-> ~ok]

\* EInkDisplay.deep_sleep()
deep_sleep(d, ok) ==
    [d |-> Ioctl(d, "deep_sleep", 0, NoRect, ok, ~ok), raised |-> ~ok]

\* EInkDisplay.clear_display(): OSError is caught and printed
clear_display(d, ok) ==
    [d |-> Ioctl(d, "clear_display", 0, NoRect, ok, FALSE), raised |-> FALSE]

\* EInkDisplay.reset_display(): RESET, then set_update_mode(EPD_MODE_FULL);
\* an IOError of either is caught and printed
reset_display(d, okReset, okMode) ==
    IF okReset
    THEN [d |-> set_update_mode(Ioctl(d, "reset", 0, NoRect, TRUE, FALSE),
                                EPD_MODE_FULL, okMode).d,
          raised |-> FALSE]
    ELSE [d |-> Ioctl(d, "reset", 0, NoRect, FALSE, FALSE), raised |-> FALSE]

----------------------------------------------------------------------------
(* A session: the state right after EInkDisplay.__init__ returned.         *)

ProgWidths == {w \in 1 .. MaxWidth : w % 4 = 0} \cup {MaxWidth}

SessionOpenAt(widths, heights, content) ==
    /\ width \in widths
    /\ height \in heights
    /\ \E b \in content : fb = FilledBuffer(width, height, b)
    /\ fb_file = TRUE
    /\ fb_mmap = TRUE
    /\ log = <<>>
    /\ mode = EPD_MODE_FULL
    /\ sleeping = FALSE

SessionOpen(heights, content) == SessionOpenAt(ProgWidths, heights, content)

\* close() that gives up when the clear-display command fails
close_aborted_by_failed_clear(d, file, mmap, ok) ==
    [d |-> IF file THEN clear_display(d, ok).d ELSE d,
     fb_mmap |-> IF file /\ ~ok THEN mmap ELSE FALSE,
     fb_file |-> IF file /\ ~ok THEN file ELSE FALSE]

\* EInkDisplay.close(clear_on_exit=True) of eink_common, as __exit__ calls it
close(d, file, mmap, ok) ==
    [d |-> IF file THEN clear_display(d, ok).d ELSE d,
     fb_mmap |-> FALSE,
     fb_file |-> FALSE]

----------------------------------------------------------------------------
(* eink_recovery.reset_display(fb_device)                                  *)

\* The script with the first clear filling white instead of black.
RecoveryScriptWhiteFirst ==
    << [op |-> "set_mode", arg |-> EPD_MODE_FULL,     step |-> 2],
       [op |-> "clear",    arg |-> 255,               step |-> 3],
       [op |-> "update",   arg |-> 0,                 step |-> 3],
       [op |-> "set_mode", arg |-> EPD_MODE_BASE_MAP, step |-> 4],
       [op |-> "update",   arg |-> 0,                 step |-> 4],
       [op |-> "set_mode", arg |-> EPD_MODE_FULL,     step |-> 5],
       [op |-> "clear",    arg |-> 255,               step |-> 5],
       [op |-> "update",   arg |-> 0,                 step |-> 5],
       [op |-> "set_mode", arg |-> EPD_MODE_BASE_MAP, step |-> 6],
       [op |-> "update",   arg |-> 0,                 step |-> 6],
       [op |-> "set_mode", arg |-> EPD_MODE_FULL,     step |-> 7],
       [op |-> "clear",    arg |-> 255,               step |-> 7],
       [op |-> "update",   arg |-> 0,                 step |-> 7],
       [op |-> "set_mode", arg |-> EPD_MODE_BASE_MAP, step |-> 8],
       [op |-> "update",   arg |-> 0,                 step |-> 8],
       [op |-> "set_mode", arg |-> EPD_MODE_FULL,     step |-> 9] >>

\* The statements after step 1, each with the value of `step` it runs under.
RecoveryScript ==
    << [op |-> "set_mode", arg |-> EPD_MODE_FULL,     step |-> 2],
       [op |-> "clear",    arg |-> 0,                 step |-> 3],
       [op |-> "update",   arg |-> 0,                 step |-> 3],
       [op |-> "set_mode", arg |-> EPD_MODE_BASE_MAP, step |-> 4],
       [op |-> "update",   arg |-> 0,                 step |-> 4],
       [op |-> "set_mode", arg |-> EPD_MODE_FULL,     step |-> 5],
       [op |-> "clear",    arg |-> 255,               step |-> 5],
       [op |-> "update",   arg |-> 0,                 step |-> 5],
       [op |-> "set_mode", arg |-> EPD_MODE_BASE_MAP, step |-> 6],
       [op |-> "update",   arg |-> 0,                 step |-> 6],
       [op |-> "set_mode", arg |-> EPD_MODE_FULL,     step |-> 7],
       [op |-> "clear",    arg |-> 255,               step |-> 7],
       [op |-> "update",   arg |-> 0,                 step |-> 7],
       [op |-> "set_mode", arg |-> EPD_MODE_BASE_MAP, step |-> 8],
       [op |-> "update",   arg |-> 0,                 step |-> 8],
       [op |-> "set_mode", arg |-> EPD_MODE_FULL,     step |-> 9] >>

InitRecovery ==
    /\ prog = "recovery"
    /\ pc = "reset"
    /\ SessionOpen(1 .. MaxHeight, InitBytes)
    /\ req = [none |-> TRUE]
    /\ res = [ret |-> "running"]
    /\ loc = [step |-> 0, i |-> 1, mode0 |-> EPD_MODE_FULL,
              fallback |-> 0, fallback_ok |-> FALSE, failed_at |-> 0]

\* Step 1: display.reset_display(); on IOError the force reset through
\* sysfs, and `raise e` when that fails too.
RecoveryReset ==
    /\ prog = "recovery" /\ pc = "reset"
    /\ \E okReset \in BOOLEAN, okMode \in BOOLEAN, okSysfs \in BOOLEAN :
          LET r == reset_display(Dev, okReset, okMode)
          IN  /\ SetDev(r.d)
              /\ IF r.raised
                 THEN /\ loc' = [loc EXCEPT !.step = 1,
                                            !.fallback = @ + 1,
                                            !.fallback_ok = okSysfs]
                      /\ IF okSysfs
                         THEN pc' = "script" /\ res' = res
                         ELSE pc' = "exit" /\ res' = [ret |-> "False"]
                 ELSE /\ loc' = [loc EXCEPT !.step = 1]
                      /\ pc' = "script"
                      /\ res' = res
    /\ UNCHANGED <<prog, width, height, fb, req, fb_file, fb_mmap>>

\* Steps 2 to N-1: one statement of the script; an IOError leaves the
\* with-block and makes reset_display return False.
RecoveryStatement ==
    /\ prog = "recovery" /\ pc = "script"
    /\ LET st == RecoveryScript[loc.i]
           last == loc.i = Len(RecoveryScript)
       IN  \/ /\ st.op = "clear"
              /\ fb' = clear(fb, st.arg)
              /\ SetDev(BufferOp(Dev, "fill", IF st.arg # 0 THEN 255 ELSE 0))
              /\ loc' = [loc EXCEPT !.step = st.step, !.i = @ + 1]
              /\ pc' = IF last THEN "prompt" ELSE "script"
              /\ res' = res
           \/ /\ st.op # "clear"
              /\ \E ok \in BOOLEAN :
                    LET r == IF st.op = "set_mode"
                             THEN set_update_mode(Dev, st.arg, ok)
                             ELSE update_display(Dev, ok)
                    IN  /\ SetDev(r.d)
                        /\ IF r.raised
                           THEN /\ pc' = "exit"
                                /\ res' = [ret |-> "False"]
                                /\ loc' = [loc EXCEPT !.step = st.step,
                                                      !.failed_at = loc.i]
                           ELSE /\ pc' = IF last THEN "prompt" ELSE "script"
                                /\ res' = res
                                /\ loc' = [loc EXCEPT !.step = st.step,
                                                      !.i = @ + 1]
              /\ fb' = fb
    /\ UNCHANGED <<prog, width, height, req, fb_file, fb_mmap>>

\* "Put display to deep sleep? (y/N)", then return True
RecoveryPrompt ==
    /\ prog = "recovery" /\ pc = "prompt"
    /\ \/ /\ res' = [ret |-> "True"]
          /\ UNCHANGED <<mode, sleeping, log>>
       \/ \E ok \in BOOLEAN :
             LET r == deep_sleep(Dev, ok)
             IN  /\ SetDev(r.d)
                 /\ res' = [ret |-> IF r.raised THEN "False" ELSE "True"]
    /\ pc' = "exit"
    /\ UNCHANGED <<prog, width, height, fb, req, fb_file, fb_mmap, loc>>

\* EInkDisplay.__exit__ of eink_common: self.close()
CloseCommon ==
    /\ prog = "recovery" /\ pc = "exit"
    /\ \E ok \in BOOLEAN :
          LET c == close(Dev, fb_file, fb_mmap, ok)
          IN  /\ SetDev(c.d)
              /\ fb_mmap' = c.fb_mmap
              /\ fb_file' = c.fb_file
    /\ pc' = "done"
    /\ UNCHANGED <<prog, width, height, fb, req, res, loc>>

----------------------------------------------------------------------------
(* gif.py: main() and display_gif(display, gif_path, loops, use_partial)   *)

\* frames[0].size: smaller than, as wide as, and larger than the display
FrameSizes == {<<2, 1>>, <<8, 1>>, <<MaxWidth + 1, MaxHeight + 1>>}

\* frames[k]: every frame of a GIF has the size of the first
Frame(k) ==
    [w |-> req.fw, h |-> req.fh,
     pat |-> IF k % 2 = 1 THEN "black" ELSE "checker"]

\* x_pos, y_pos, frame_width, frame_height of display_gif
gif_position(cw, ch, fw, fh) ==
    LET x0 == Max(0, (((cw - fw) \div 2) \div 8) * 8)
        y0 == Max(0, (ch - fh) \div 2)
    IN  [x_pos |-> x0, y_pos |-> y0,
         frame_width |-> Min(fw, cw - x0),
         frame_height |-> Min(fh, ch - y0)]

\* use_partial and len(frames) > 1
PartialAnimation == req.use_partial /\ req.nframes > 1

InitGif ==
    /\ prog = "gif"
    /\ pc = "main"
    /\ \/ SessionOpen({MaxHeight}, {165})
       \/ SessionOpenAt({WideWidth}, {TallHeight}, {165})
    /\ \E size \in FrameSizes :
          req \in [reset : BOOLEAN, loops : 0 .. MaxLoops,
                   use_partial : BOOLEAN, nframes : 1 .. MaxFrames,
                   fw : {size[1]}, fh : {size[2]}]
    /\ res = [ret |-> "running"]
    /\ loc = [loop_count |-> 0, i |-> 1, driver |-> "idle",
              stop |-> "none", begin |-> 0, end |-> 0]

\* An exception leaves display_gif (when it is running) and the with-block.
GifRaise(e, d) ==
    /\ pc' = "exit"
    /\ res' = [ret |-> e]
    /\ loc' = IF loc.driver = "running"
              THEN [loc EXCEPT !.driver = IF e = "KeyboardInterrupt"
                                          THEN "cancelled" ELSE "error",
                               !.end = Len(d.log)]
              ELSE loc

\* main: the optional reset, then the call of display_gif
GifMain ==
    /\ prog = "gif" /\ pc = "main"
    /\ \E okReset \in BOOLEAN, okMode \in BOOLEAN :
          LET d == IF req.reset
                   THEN reset_display(Dev, okReset, okMode).d
                   ELSE Dev
          IN  /\ (~req.reset => okReset /\ okMode)
              /\ SetDev(d)
              /\ loc' = [loc EXCEPT !.driver = "running",
                                    !.begin = Len(d.log)]
    /\ pc' = "clear_mode"
    /\ UNCHANGED <<prog, width, height, fb, req, res, fb_file, fb_mmap>>

\* A set_update_mode / update_display statement of display_gif at `at`,
\* going on at `to`.
GifCommand(at, to, c, a) ==
    /\ prog = "gif" /\ pc = at
    /\ \E ok \in BOOLEAN :
          LET r == IF c = "set_mode" THEN set_update_mode(Dev, a, ok)
                   ELSE update_display(Dev, ok)
          IN  /\ SetDev(r.d)
              /\ IF r.raised
                 THEN GifRaise("Exception", r.d)
                 ELSE pc' = to /\ UNCHANGED <<res, loc>>
    /\ UNCHANGED <<prog, width, height, fb, req, fb_file, fb_mmap>>

\* display.clear(255) at `at`
GifFill(at, to) ==
    /\ prog = "gif" /\ pc = at
    /\ fb' = clear(fb, 255)
    /\ SetDev(BufferOp(Dev, "fill", 255))
    /\ pc' = to
    /\ UNCHANGED <<prog, width, height, req, res, fb_file, fb_mmap, loc>>

\* "First, do a full clear"
GifClearMode == GifCommand("clear_mode", "clear_fill", "set_mode", EPD_MODE_FULL)
GifClearFill == GifFill("clear_fill", "clear_update")
GifClearUpdate == GifCommand("clear_update", "set_mode", "update", 0)

\* The mode statement always taking the full-update branch.
GifSetModeFullOnly ==
    GifCommand("set_mode", "while", "set_mode", EPD_MODE_FULL)

\* "Set update mode"
GifSetMode ==
    /\ prog = "gif"
    /\ IF PartialAnimation
       THEN GifCommand("set_mode", "set_area", "set_mode", EPD_MODE_PARTIAL)
       ELSE GifCommand("set_mode", "while", "set_mode", EPD_MODE_FULL)

\* display.set_partial_area(x_pos, y_pos, frame_width, frame_height)
GifSetPartialArea ==
    /\ prog = "gif" /\ pc = "set_area"
    /\ LET g == gif_position(width, height, req.fw, req.fh)
           a == gif_set_partial_area(width, height, g.x_pos, g.y_pos,
                                     g.frame_width, g.frame_height)
       IN  IF ~a.sent
           THEN GifRaise("Exception", Dev) /\ UNCHANGED <<mode, sleeping, log>>
           ELSE \E ok \in BOOLEAN :
                   LET d == Ioctl(Dev, "set_partial_area", 0, a.rect, ok, ~ok)
                   IN  /\ SetDev(d)
                       /\ IF ok
                          THEN pc' = "while" /\ UNCHANGED <<res, loc>>
                          ELSE GifRaise("Exception", d)
    /\ UNCHANGED <<prog, width, height, fb, req, fb_file, fb_mmap>>

\* The loop test with <= in place of <.
GifWhileOffByOne ==
    /\ prog = "gif" /\ pc = "while"
    /\ req.loops = 0 => loc.loop_count < MaxPasses
    /\ IF req.loops = 0 \/ loc.loop_count <= req.loops
       THEN pc' = "for" /\ loc' = [loc EXCEPT !.i = 1]
       ELSE pc' = "final_mode" /\ loc' = [loc EXCEPT !.stop = "exhausted"]
    /\ UNCHANGED <<prog, width, height, fb, req, res, log, mode, sleeping,
                   fb_file, fb_mmap>>

\* while loops == 0 or loop_count < loops
GifWhile ==
    /\ prog = "gif" /\ pc = "while"
    /\ req.loops = 0 => loc.loop_count < MaxPasses
    /\ IF req.loops = 0 \/ loc.loop_count < req.loops
       THEN pc' = "for" /\ loc' = [loc EXCEPT !.i = 1]
       ELSE pc' = "final_mode" /\ loc' = [loc EXCEPT !.stop = "exhausted"]
    /\ UNCHANGED <<prog, width, height, fb, req, res, log, mode, sleeping,
                   fb_file, fb_mmap>>

\* for i, (frame, duration) in enumerate(zip(frames, durations)), with the
\* skip of a frame larger than the display, and loop_count += 1 at the end
GifFor ==
    /\ prog = "gif" /\ pc = "for"
    /\ IF loc.i > req.nframes
       THEN pc' = "while" /\ loc' = [loc EXCEPT !.loop_count = @ + 1]
       ELSE IF Frame(loc.i).w > width \/ Frame(loc.i).h > height
            THEN pc' = "for" /\ loc' = [loc EXCEPT !.i = @ + 1]
            ELSE /\ pc' = IF PartialAnimation THEN "ghost" ELSE "draw"
                 /\ loc' = loc
    /\ UNCHANGED <<prog, width, height, fb, req, res, log, mode, sleeping,
                   fb_file, fb_mmap>>

\* A draw_image statement of the frame loop.
GifBlit(at, to, what, img) ==
    /\ prog = "gif" /\ pc = at
    /\ LET g == gif_position(width, height, req.fw, req.fh)
           r == draw_image(fb, width, height, img, g.x_pos, g.y_pos)
       IN  /\ fb' = r.buf
           /\ SetDev(BlitOp(Dev, what, loc.i,
                            Rect(g.x_pos, g.y_pos, img.w, img.h)))
           /\ IF r.raised
              THEN GifRaise("Exception", Dev)
              ELSE pc' = to /\ UNCHANGED <<res, loc>>
    /\ UNCHANGED <<prog, width, height, req, fb_file, fb_mmap>>

\* The frame loop going straight to the frame.
GifGhostClearSkipped ==
    /\ prog = "gif" /\ pc = "ghost"
    /\ pc' = "draw"
    /\ UNCHANGED <<prog, width, height, fb, req, res, log, mode, sleeping,
                   fb_file, fb_mmap, loc>>

\* clear_img = Image.new("1", (frame_width, frame_height), 1), drawn first
GifGhostClear ==
    /\ prog = "gif"
    /\ LET g == gif_position(width, height, req.fw, req.fh)
       IN  GifBlit("ghost", "draw", "ghost",
                   [w |-> g.frame_width, h |-> g.frame_height,
                    pat |-> "white"])

\* display.draw_image(mono_frame, x_pos, y_pos)
GifDrawFrame ==
    /\ prog = "gif"
    /\ GifBlit("draw", "update", "frame", Frame(loc.i))

\* display.update_display()
GifUpdate == GifCommand("update", "sleep", "update", 0)

\* time.sleep(duration / 1000.0): the wait for the frame's duration, kept
\* in the log with the frame's number
GifSleep ==
    /\ prog = "gif" /\ pc = "sleep"
    /\ SetDev(BufferOp(Dev, "sleep", loc.i))
    /\ pc' = "for"
    /\ loc' = [loc EXCEPT !.i = @ + 1]
    /\ UNCHANGED <<prog, width, height, fb, req, res, fb_file, fb_mmap>>

\* The final refresh without the clear.
GifFinalFillSkipped ==
    /\ prog = "gif" /\ pc = "final_fill"
    /\ pc' = "final_update"
    /\ UNCHANGED <<prog, width, height, fb, req, res, log, mode, sleeping,
                   fb_file, fb_mmap, loc>>

\* "Always do a final full refresh": set_update_mode(EPD_MODE_FULL), then
\* clear(255) for a partial animation, then update_display(); return
GifFinalMode ==
    /\ prog = "gif"
    /\ IF PartialAnimation
       THEN GifCommand("final_mode", "final_fill", "set_mode", EPD_MODE_FULL)
       ELSE GifCommand("final_mode", "final_update", "set_mode", EPD_MODE_FULL)
GifFinalFill == GifFill("final_fill", "final_update")
GifFinalUpdate ==
    /\ prog = "gif" /\ pc = "final_update"
    /\ \E ok \in BOOLEAN :
          LET r == update_display(Dev, ok)
          IN  /\ SetDev(r.d)
              /\ IF r.raised
                 THEN GifRaise("Exception", r.d)
                 ELSE /\ pc' = "deep_sleep"
                      /\ res' = res
                      /\ loc' = [loc EXCEPT !.driver = "returned",
                                            !.end = Len(r.d.log)]
    /\ UNCHANGED <<prog, width, height, fb, req, fb_file, fb_mmap>>

\* main: display.deep_sleep()
GifDeepSleep ==
    /\ prog = "gif" /\ pc = "deep_sleep"
    /\ \E ok \in BOOLEAN :
          LET r == deep_sleep(Dev, ok)
          IN  /\ SetDev(r.d)
              /\ IF r.raised
                 THEN GifRaise("Exception", r.d)
                 ELSE pc' = "exit" /\ res' = [ret |-> "None"] /\ loc' = loc
    /\ UNCHANGED <<prog, width, height, fb, req, fb_file, fb_mmap>>

\* The statements of the try block of the animation loop.
GifTryBlock == {"while", "for", "ghost", "draw", "update", "sleep"}

\* KeyboardInterrupt: caught inside the animation loop ("Animation
\* interrupted", on to the final refresh), propagating anywhere else
GifInterrupt ==
    /\ prog = "gif"
    /\ pc \notin {"exit", "done"}
    /\ IF pc \in GifTryBlock
       THEN /\ pc' = "final_mode"
            /\ loc' = [loc EXCEPT !.stop = "cancelled"]
            /\ res' = res
       ELSE GifRaise("KeyboardInterrupt", Dev)
    /\ UNCHANGED <<prog, width, height, fb, req, log, mode, sleeping,
                   fb_file, fb_mmap>>

\* EInkDisplay.__exit__ of gif.py: close() without a command
GifClose ==
    /\ prog = "gif" /\ pc = "exit"
    /\ fb_mmap' = FALSE
    /\ fb_file' = FALSE
    /\ pc' = "done"
    /\ UNCHANGED <<prog, width, height, fb, req, res, log, mode, sleeping,
                   loc>>

----------------------------------------------------------------------------
(* eink_demo.py: demo_partial_update()                                     *)

PARTIAL_X == 16
PARTIAL_Y == 100
PARTIAL_WIDTH == 64
PARTIAL_HEIGHT == 32
PARTIAL_WIDTH_FALLBACK == 80
DEMO_UPDATES == 5

\* partial_x, partial_y, partial_width, partial_height after "Verify bounds"
demo_partial_rect(cw, ch) ==
    LET fitsx == PARTIAL_X + PARTIAL_WIDTH <= cw
        fitsy == PARTIAL_Y + PARTIAL_HEIGHT <= ch
    IN  Rect(IF fitsx THEN PARTIAL_X ELSE 0,
             IF fitsy THEN PARTIAL_Y ELSE 0,
             IF fitsx THEN PARTIAL_WIDTH
             ELSE Min(PARTIAL_WIDTH_FALLBACK, cw),
             IF fitsy THEN PARTIAL_HEIGHT ELSE Min(PARTIAL_HEIGHT, ch))

InitDemo ==
    /\ prog = "demo"
    /\ pc = "full_mode"
    /\ SessionOpen({MaxHeight}, {165})
    /\ req = [none |-> TRUE]
    /\ res = [ret |-> "running"]
    /\ loc = [i |-> 0]

\* A set_update_mode / update_display statement at `at`: on to `to`, or
\* with the IOError to the handler at `handler`.
DemoCommand(at, to, handler, c, a) ==
    /\ prog = "demo" /\ pc = at
    /\ \E ok \in BOOLEAN :
          LET r == IF c = "set_mode" THEN set_update_mode(Dev, a, ok)
                   ELSE update_display(Dev, ok)
          IN  /\ SetDev(r.d)
              /\ pc' = IF r.raised THEN handler ELSE to
    /\ UNCHANGED <<prog, width, height, fb, req, res, fb_file, fb_mmap, loc>>

\* A draw_image statement at `at`; a ValueError goes to the outer handler.
DemoBlit(at, to, img, x, y) ==
    /\ prog = "demo" /\ pc = at
    /\ LET r == draw_image(fb, width, height, img, x, y)
       IN  /\ fb' = r.buf
           /\ SetDev(BufferOp(Dev, "frame", loc.i))
           /\ pc' = IF r.raised THEN "except" ELSE to
    /\ UNCHANGED <<prog, width, height, req, res, fb_file, fb_mmap, loc>>

\* A reset_display() statement at `at`: it returns whatever happened.
DemoReset(at, to) ==
    /\ prog = "demo" /\ pc = at
    /\ \E okReset \in BOOLEAN, okMode \in BOOLEAN :
          /\ (~okReset => okMode)
          /\ SetDev(reset_display(Dev, okReset, okMode).d)
    /\ pc' = to
    /\ UNCHANGED <<prog, width, height, fb, req, res, fb_file, fb_mmap, loc>>

\* "First do a full update to set the base"
DemoFullMode ==
    DemoCommand("full_mode", "clear", "except", "set_mode", EPD_MODE_FULL)

DemoClear ==
    /\ prog = "demo" /\ pc = "clear"
    /\ fb' = clear(fb, 255)
    /\ SetDev(BufferOp(Dev, "fill", 255))
    /\ pc' = "base"
    /\ UNCHANGED <<prog, width, height, req, res, fb_file, fb_mmap, loc>>

\* display.draw_image(img): the base image, as large as the display
DemoDrawBase ==
    DemoBlit("base", "base_update",
             [w |-> width, h |-> height, pat |-> "checker"], 0, 0)

DemoBaseUpdate ==
    DemoCommand("base_update", "partial_mode", "except", "update", 0)

\* "Switch to partial mode"
DemoPartialMode ==
    DemoCommand("partial_mode", "area", "except", "set_mode",
                EPD_MODE_PARTIAL)

\* display.set_partial_area(...) inside the counter loop: ValueError and
\* struct.error go to the outer handler, the IOError of the ioctl to the
\* inner one
DemoSetPartialArea ==
    /\ prog = "demo" /\ pc = "area"
    /\ LET q == demo_partial_rect(width, height)
           a == demo_set_partial_area(width, height, q.x, q.y, q.w, q.h)
       IN  IF ~a.sent
           THEN /\ pc' = "except"
                /\ UNCHANGED <<mode, sleeping, log>>
           ELSE \E ok \in BOOLEAN :
                   /\ SetDev(Ioctl(Dev, "set_partial_area", 0, a.rect, ok,
                                   ~ok))
                   /\ pc' = IF ok THEN "counter" ELSE "inner_reset"
    /\ UNCHANGED <<prog, width, height, fb, req, res, fb_file, fb_mmap, loc>>

\* display.draw_image(counter_img, partial_x, partial_y)
DemoDrawCounter ==
    /\ prog = "demo"
    /\ LET q == demo_partial_rect(width, height)
       IN  DemoBlit("counter", "counter_update",
                    [w |-> q.w, h |-> q.h,
                     pat |-> IF loc.i % 2 = 0 THEN "black" ELSE "white"],
                    q.x, q.y)

\* The counter loop going on with the next round after a failed update.
DemoCounterUpdateNoBreak ==
    /\ prog = "demo" /\ pc = "counter_update"
    /\ \E ok \in BOOLEAN :
          /\ SetDev(update_display(Dev, ok).d)
          /\ loc' = [loc EXCEPT !.i = @ + 1]
          /\ pc' = IF loc.i + 1 < DEMO_UPDATES THEN "area" ELSE "finally"
    /\ UNCHANGED <<prog, width, height, fb, req, res, fb_file, fb_mmap>>

\* display.update_display(), then the next round of range(5)
DemoCounterUpdate ==
    /\ prog = "demo" /\ pc = "counter_update"
    /\ \E ok \in BOOLEAN :
          LET r == update_display(Dev, ok)
          IN  /\ SetDev(r.d)
              /\ IF r.raised
                 THEN pc' = "inner_reset" /\ loc' = loc
                 ELSE /\ loc' = [loc EXCEPT !.i = @ + 1]
                      /\ pc' = IF loc.i + 1 < DEMO_UPDATES THEN "area"
                               ELSE "finally"
    /\ UNCHANGED <<prog, width, height, fb, req, res, fb_file, fb_mmap>>

\* except IOError: "Attempting display reset...", full mode as fallback
DemoInnerReset == DemoReset("inner_reset", "inner_mode")
DemoInnerMode ==
    DemoCommand("inner_mode", "inner_update", "except", "set_mode",
                EPD_MODE_FULL)
DemoInnerUpdate == DemoCommand("inner_update", "finally", "except", "update", 0)

\* except Exception: "Resetting display..."
DemoOuterReset == DemoReset("except", "finally")

\* finally: "Cleaning up partial update state..."; an IOError here leaves
\* the with-block
DemoFinally ==
    /\ prog = "demo" /\ pc = "finally"
    /\ \E ok \in BOOLEAN :
          LET r == set_update_mode(Dev, EPD_MODE_FULL, ok)
          IN  /\ SetDev(r.d)
              /\ res' = [ret |-> IF r.raised THEN "Exception" ELSE "None"]
    /\ pc' = "exit"
    /\ UNCHANGED <<prog, width, height, fb, req, fb_file, fb_mmap, loc>>

\* EInkDisplay.__exit__ of eink_demo.py: close() without a command
DemoClose ==
    /\ prog = "demo" /\ pc = "exit"
    /\ fb_mmap' = FALSE
    /\ fb_file' = FALSE
    /\ pc' = "done"
    /\ UNCHANGED <<prog, width, height, fb, req, res, log, mode, sleeping,
                   loc>>

----------------------------------------------------------------------------
(* eink_reader.py: EInkReader.run_interactive()                            *)

READER_WIDTH == 128
READER_HEIGHT == 250

\* fb_size = (self.width * self.height) // 8
reader_fb_size == (READER_WIDTH * READER_HEIGHT) \div 8

\* img.tobytes() of a rendered page, written over the mapping from 0
PageBuffer(p) == [i \in 0 .. (reader_fb_size - 1) |-> 129 + p]

\* EInkReader.set_update_mode(mode): any exception is caught and printed
reader_set_update_mode(d, m, ok) ==
    [d |-> Ioctl(d, "set_mode", m, NoRect, ok, FALSE), raised |-> FALSE]

InitReader ==
    /\ prog = "reader"
    /\ pc = "full_mode"
    /\ width = READER_WIDTH
    /\ height = READER_HEIGHT
    /\ fb = [i \in 0 .. (reader_fb_size - 1) |-> 165]
    /\ fb_file = TRUE
    /\ fb_mmap = TRUE
    /\ log = <<>>
    /\ mode = EPD_MODE_FULL
    /\ sleeping = FALSE
    /\ req \in [npages : 1 .. MaxPages]
    /\ res = [ret |-> "running"]
    /\ loc = [current_page |-> 0, ncmds |-> 0, cleaned |-> FALSE]

\* "Initial full refresh": self.set_update_mode(EPD_MODE_FULL)
ReaderFullMode ==
    /\ prog = "reader" /\ pc = "full_mode"
    /\ \E ok \in BOOLEAN :
          SetDev(reader_set_update_mode(Dev, EPD_MODE_FULL, ok).d)
    /\ pc' = "render_first"
    /\ UNCHANGED <<prog, width, height, fb, req, res, fb_file, fb_mmap, loc>>

\* self.render_page(0)
ReaderRenderFirst ==
    /\ prog = "reader" /\ pc = "render_first"
    /\ fb' = PageBuffer(0)
    /\ SetDev(BufferOp(Dev, "page", 0))
    /\ pc' = "partial_mode"
    /\ UNCHANGED <<prog, width, height, req, res, fb_file, fb_mmap, loc>>

\* "Switch to partial mode for page turns"
ReaderPartialMode ==
    /\ prog = "reader" /\ pc = "partial_mode"
    /\ \E ok \in BOOLEAN :
          SetDev(reader_set_update_mode(Dev, EPD_MODE_PARTIAL, ok).d)
    /\ pc' = "input"
    /\ UNCHANGED <<prog, width, height, fb, req, res, fb_file, fb_mmap, loc>>

\* One command of the loop: q, n, p or g <num>.  next_page / prev_page
\* render the page and go on to set_partial_area; g renders only.
ReaderCommand ==
    /\ prog = "reader" /\ pc = "input"
    /\ loc.ncmds < MaxCmds
    /\ \E cmd \in {"q", "n", "p", "g"}, page \in 0 .. MaxPages :
          LET turn == IF cmd = "n" THEN loc.current_page < req.npages - 1
                      ELSE IF cmd = "p" THEN loc.current_page > 0
                      ELSE IF cmd = "g" THEN page < req.npages
                      ELSE FALSE
              target == IF cmd = "n" THEN loc.current_page + 1
                        ELSE IF cmd = "p" THEN loc.current_page - 1
                        ELSE page
          IN  /\ (cmd # "g" => page = 0)
              /\ IF turn
                 THEN /\ fb' = PageBuffer(target)
                      /\ SetDev(BufferOp(Dev, "page", target))
                      /\ loc' = [loc EXCEPT !.current_page = target,
                                            !.ncmds = @ + 1]
                 ELSE /\ UNCHANGED <<fb, mode, sleeping, log>>
                      /\ loc' = [loc EXCEPT !.ncmds = @ + 1]
              /\ pc' = IF cmd = "q" THEN "cleanup"
                       ELSE IF turn /\ cmd \in {"n", "p"} THEN "set_area"
                       ELSE "input"
    /\ UNCHANGED <<prog, width, height, req, res, fb_file, fb_mmap>>

\* self.set_partial_area(0, 0, self.width, self.height - 20): a failure of
\* the ioctl is caught and printed
ReaderSetPartialArea ==
    /\ prog = "reader" /\ pc = "set_area"
    /\ LET a == reader_set_partial_area(width, height, 0, 0, width,
                                        height - 20)
       IN  IF ~a.sent
           THEN /\ pc' = "cleanup"
                /\ res' = [ret |-> "Exception"]
                /\ UNCHANGED <<mode, sleeping, log>>
           ELSE /\ \E ok \in BOOLEAN :
                      SetDev(Ioctl(Dev, "set_partial_area", 0, a.rect, ok,
                                   FALSE))
                /\ pc' = "input"
                /\ res' = res
    /\ UNCHANGED <<prog, width, height, fb, req, fb_file, fb_mmap, loc>>

\* KeyboardInterrupt: caught around the command loop ("Exiting..."), where
\* the finally clause runs cleanup(); propagating before the loop is entered
ReaderInterrupt ==
    /\ prog = "reader"
    /\ pc \in {"full_mode", "render_first", "partial_mode", "input",
               "set_area"}
    /\ IF pc \in {"input", "set_area"}
       THEN pc' = "cleanup" /\ res' = res
       ELSE pc' = "done" /\ res' = [ret |-> "KeyboardInterrupt"]
    /\ UNCHANGED <<prog, width, height, fb, req, log, mode, sleeping,
                   fb_file, fb_mmap, loc>>

\* cleanup(): set_update_mode(EPD_MODE_FULL), the buffer filled with 0xFF,
\* the mapping and the descriptor closed
ReaderCleanup ==
    /\ prog = "reader" /\ pc = "cleanup"
    /\ \E ok \in BOOLEAN :
          SetDev(BufferOp(reader_set_update_mode(Dev, EPD_MODE_FULL, ok).d,
                          "fill", 255))
    /\ fb' = [i \in DOMAIN fb |-> 255]
    /\ fb_mmap' = FALSE
    /\ fb_file' = FALSE
    /\ loc' = [loc EXCEPT !.cleaned = TRUE]
    /\ res' = IF res.ret = "running" THEN [ret |-> "None"] ELSE res
    /\ pc' = "done"
    /\ UNCHANGED <<prog, width, height, req>>

----------------------------------------------------------------------------
(* eink_weather.py: WeatherDashboard.run()                                 *)

WEATHER_WIDTH == 128
WEATHER_HEIGHT == 250
TITLE_BAR_ROWS == 26

\* fb_size = (self.width * self.height) // 8
weather_fb_size == (WEATHER_WIDTH * WEATHER_HEIGHT) \div 8

\* self.base_image.tobytes(): white, with the black title bar on top
BaseMapBuffer ==
    [i \in 0 .. (weather_fb_size - 1) |->
        IF i < TITLE_BAR_ROWS * (WEATHER_WIDTH \div 8) THEN 0 ELSE 255]

\* WeatherDashboard.set_update_mode(mode): any exception is caught and printed
weather_set_update_mode(d, m, ok) ==
    [d |-> Ioctl(d, "set_mode", m, NoRect, ok, FALSE), raised |-> FALSE]

InitWeather ==
    /\ prog = "weather"
    /\ pc = "full_mode"
    /\ width = WEATHER_WIDTH
    /\ height = WEATHER_HEIGHT
    /\ fb \in {[i \in 0 .. (weather_fb_size - 1) |-> b] : b \in InitBytes}
    /\ fb_file = TRUE
    /\ fb_mmap = TRUE
    /\ log = <<>>
    /\ mode = EPD_MODE_FULL
    /\ sleeping = FALSE
    /\ req = [none |-> TRUE]
    /\ res = [ret |-> "running"]
    /\ loc = [transitions |-> 0]

\* "Initial full refresh": the first mode transition the program asks for
WeatherFullMode ==
    /\ prog = "weather" /\ pc = "full_mode"
    /\ \E ok \in BOOLEAN :
          SetDev(weather_set_update_mode(Dev, EPD_MODE_FULL, ok).d)
    /\ loc' = [loc EXCEPT !.transitions = @ + 1]
    /\ pc' = "create_base_map"
    /\ UNCHANGED <<prog, width, height, fb, req, res, fb_file, fb_mmap>>

\* create_base_map() / send_base_map(): the image is written to the
\* mapping; the ioctl statement names EINK_SET_BASE_MAP, which the module
\* does not define (it defines EPD_IOC_SET_BASE_MAP), so evaluating its
\* arguments raises NameError, which the except clause around it catches:
\* no command reaches the device
WeatherCreateBaseMap ==
    /\ prog = "weather" /\ pc = "create_base_map"
    /\ fb' = BaseMapBuffer
    /\ SetDev(BufferOp(Dev, "page", 0))
    /\ pc' = "base_map_mode"
    /\ UNCHANGED <<prog, width, height, req, res, fb_file, fb_mmap, loc>>

\* "Switch to base map mode": self.set_update_mode(UPDATE_MODE_BASE_MAP)
\* names a constant the module does not define (it defines
\* EPD_MODE_BASE_MAP); NameError is raised before set_update_mode is
\* entered and, the statement being outside the try, ends run()
WeatherBaseMapMode ==
    /\ prog = "weather" /\ pc = "base_map_mode"
    /\ loc' = [loc EXCEPT !.transitions = @ + 1]
    /\ res' = [ret |-> "NameError"]
    /\ pc' = "done"
    /\ UNCHANGED <<prog, width, height, fb, req, log, mode, sleeping,
                   fb_file, fb_mmap>>

\* KeyboardInterrupt before the try block of run() is entered
WeatherInterrupt ==
    /\ prog = "weather" /\ pc # "done"
    /\ res' = [ret |-> "KeyboardInterrupt"]
    /\ pc' = "done"
    /\ UNCHANGED <<prog, width, height, fb, req, log, mode, sleeping,
                   fb_file, fb_mmap, loc>>

----------------------------------------------------------------------------
(* eink_image.py: main()                                                   *)

InitImage ==
    /\ prog = "image"
    /\ pc = "set_mode"
    /\ SessionOpen({MaxHeight}, {165})
    /\ req \in [update : {"full", "partial"}, pat : Patterns]
    /\ res = [ret |-> "running"]
    /\ loc = [none |-> TRUE]

\* A set_update_mode / update_display statement of main: an IOError is
\* printed and the program exits with status 1 through the finally clause.
ImageCommand(at, to, c, a) ==
    /\ prog = "image" /\ pc = at
    /\ \E ok \in BOOLEAN :
          LET r == IF c = "set_mode" THEN set_update_mode(Dev, a, ok)
                   ELSE update_display(Dev, ok)
          IN  /\ SetDev(r.d)
              /\ pc' = IF r.raised THEN "exit" ELSE to
              /\ res' = IF r.raised THEN [ret |-> "exit 1"]
                        ELSE IF to = "exit" THEN [ret |-> "None"]
                        ELSE res
    /\ UNCHANGED <<prog, width, height, fb, req, fb_file, fb_mmap, loc>>

\* "Set update mode": Partial with --update partial, Full otherwise
ImageSetMode ==
    ImageCommand("set_mode", "clear", "set_mode",
                 IF prog = "image" /\ req.update = "partial"
                 THEN EPD_MODE_PARTIAL ELSE EPD_MODE_FULL)

\* display.clear(255)
ImageClear ==
    /\ prog = "image" /\ pc = "clear"
    /\ fb' = clear(fb, 255)
    /\ SetDev(BufferOp(Dev, "fill", 255))
    /\ pc' = "draw"
    /\ UNCHANGED <<prog, width, height, req, res, fb_file, fb_mmap, loc>>

\* display.draw_image(img, 0, 0): the converted image, as large as the
\* display
ImageDraw ==
    /\ prog = "image" /\ pc = "draw"
    /\ LET r == draw_image(fb, width, height,
                           [w |-> width, h |-> height, pat |-> req.pat], 0, 0)
       IN  /\ fb' = r.buf
           /\ SetDev(BufferOp(Dev, "frame", 0))
           /\ pc' = IF r.raised THEN "exit" ELSE "update"
           /\ res' = IF r.raised THEN [ret |-> "exit 1"] ELSE res
    /\ UNCHANGED <<prog, width, height, req, fb_file, fb_mmap, loc>>

\* display.update_display()
ImageUpdate == ImageCommand("update", "exit", "update", 0)

\* finally: display.close()
ImageClose ==
    /\ prog = "image" /\ pc = "exit"
    /\ \E ok \in BOOLEAN :
          LET c == close(Dev, fb_file, fb_mmap, ok)
          IN  /\ SetDev(c.d)
              /\ fb_mmap' = c.fb_mmap
              /\ fb_file' = c.fb_file
    /\ pc' = "done"
    /\ UNCHANGED <<prog, width, height, fb, req, res, loc>>

----------------------------------------------------------------------------
(* The life of a session object: construction (the framebuffer is opened,  *)
(* the geometry discovered, the buffer mapped), mode requests, close, and  *)
(* requests on the closed object.  get_display_info is the same discovery  *)
(* without a session.                                                      *)

\* What FBIOGET_VSCREENINFO answered: it failed, or it gave xres and yres.
ScreenInfo == [ok : BOOLEAN, xres : {0, MaxWidth}, yres : {0, MaxHeight}]

SessionVariants == {"common", "gif", "demo", "reader", "info"}

\* "if self.width == 0 or self.height == 0": both fall back to the defaults
geometry_or_default(w, h) ==
    IF w = 0 \/ h = 0
    THEN [w |-> EINK_DEFAULT_WIDTH, h |-> EINK_DEFAULT_HEIGHT]
    ELSE [w |-> w, h |-> h]

\* eink_common.EInkDisplay._open_framebuffer: a failed query is caught and
\* the dimensions set by __init__ are kept
common_open_framebuffer(q) ==
    [raised |-> "none",
     g |-> IF q.ok
           THEN geometry_or_default(q.xres, q.yres)
           ELSE geometry_or_default(EINK_DEFAULT_WIDTH, EINK_DEFAULT_HEIGHT)]

\* gif.EInkDisplay._open_framebuffer and eink_demo.EInkDisplay
\* ._open_framebuffer: the OSError of the query propagates out of __init__
gif_open_framebuffer(q) ==
    IF q.ok
    THEN [raised |-> "none", g |-> geometry_or_default(q.xres, q.yres)]
    ELSE [raised |-> "OSError",
          g |-> [w |-> EINK_DEFAULT_WIDTH, h |-> EINK_DEFAULT_HEIGHT]]

\* eink_common.get_display_info: defaults on zero and on any exception
get_display_info(q) ==
    LET g == IF q.ok
             THEN geometry_or_default(q.xres, q.yres)
             ELSE [w |-> EINK_DEFAULT_WIDTH, h |-> EINK_DEFAULT_HEIGHT]
    IN  [width |-> g.w, height |-> g.h,
         bytes_per_line |-> bytes_per_line(g.w),
         total_bytes |-> bytes_per_line(g.w) * g.h]

\* The object as __init__ leaves it before _open_framebuffer runs.
InitSession ==
    /\ prog = "session"
    /\ pc = "open"
    /\ width = EINK_DEFAULT_WIDTH
    /\ height = EINK_DEFAULT_HEIGHT
    /\ fb = <<>>
    /\ fb_file = FALSE
    /\ fb_mmap = FALSE
    /\ log = <<>>
    /\ mode = EPD_MODE_FULL
    /\ sleeping = FALSE
    /\ req \in [variant : SessionVariants, query : ScreenInfo, fill : {165}]
    /\ res = [raised |-> "none"]
    /\ loc = [requests |-> 0, closes |-> 0]

\* EInkDisplay.__init__ -> _open_framebuffer of eink_common, gif.py, eink_demo
OpenFramebuffer ==
    /\ prog = "session" /\ pc = "open"
    /\ req.variant \in {"common", "gif", "demo"}
    /\ LET o == IF req.variant = "common"
                THEN common_open_framebuffer(req.query)
                ELSE gif_open_framebuffer(req.query)
       IN  /\ fb_file' = TRUE
           /\ res' = [raised |-> o.raised]
           /\ IF o.raised = "none"
              THEN /\ width' = o.g.w
                   /\ height' = o.g.h
                   /\ fb' = FilledBuffer(o.g.w, o.g.h, req.fill)
                   /\ fb_mmap' = TRUE
                   /\ pc' = "opened"
              ELSE /\ UNCHANGED <<width, height, fb, fb_mmap>>
                   /\ pc' = "failed"
    /\ UNCHANGED <<prog, req, log, mode, sleeping, loc>>

\* EInkReader.__init__ -> setup_framebuffer: fixed geometry, no query
SetupFramebuffer ==
    /\ prog = "session" /\ pc = "open" /\ req.variant = "reader"
    /\ fb_file' = TRUE
    /\ fb_mmap' = TRUE
    /\ width' = READER_WIDTH
    /\ height' = READER_HEIGHT
    /\ fb' = [i \in 0 .. (reader_fb_size - 1) |-> req.fill]
    /\ pc' = "opened"
    /\ UNCHANGED <<prog, req, res, log, mode, sleeping, loc>>

\* get_display_info(fb_device)
GetDisplayInfo ==
    /\ prog = "session" /\ pc = "open" /\ req.variant = "info"
    /\ res' = get_display_info(req.query)
    /\ pc' = "done"
    /\ UNCHANGED <<prog, width, height, fb, req, log, mode, sleeping,
                   fb_file, fb_mmap, loc>>

\* set_update_mode(mode) on a closed object: fcntl.ioctl gets None
\* (eink_common: TypeError), a closed file object (gif.py, eink_demo:
\* ValueError) or a closed descriptor (eink_reader: OSError, which its
\* set_update_mode catches); the device sees nothing.
closed_set_update_mode(variant) ==
    IF variant = "common" THEN "TypeError"
    ELSE IF variant = "reader" THEN "none"
    ELSE "ValueError"

\* A mode request of the caller, on the open or on the closed object.
SessionSetUpdateMode ==
    /\ prog = "session" /\ pc \in {"opened", "closed"}
    /\ loc.requests < MaxCmds
    /\ \E m \in {EPD_MODE_FULL, EPD_MODE_PARTIAL}, ok \in BOOLEAN :
          IF fb_file
          THEN LET r == IF req.variant = "reader"
                        THEN reader_set_update_mode(Dev, m, ok)
                        ELSE set_update_mode(Dev, m, ok)
               IN  /\ SetDev(r.d)
                   /\ res' = [raised |-> IF r.raised THEN "OSError" ELSE "none"]
          ELSE /\ res' = [raised |-> closed_set_update_mode(req.variant)]
               /\ UNCHANGED <<log, mode, sleeping>>
    /\ loc' = [loc EXCEPT !.requests = loc.requests + 1]
    /\ UNCHANGED <<prog, pc, width, height, fb, req, fb_file, fb_mmap>>

\* close() of eink_common (with the clear-display command), close() of
\* gif.py and eink_demo (no command), cleanup() of eink_reader
SessionClose ==
    /\ prog = "session" /\ pc = "opened"
    /\ \E ok \in BOOLEAN :
          IF req.variant = "common"
          THEN LET c == close(Dev, fb_file, fb_mmap, ok)
               IN  /\ SetDev(c.d)
                   /\ fb_mmap' = c.fb_mmap
                   /\ fb_file' = c.fb_file
                   /\ fb' = fb
          ELSE IF req.variant = "reader"
          THEN /\ SetDev(BufferOp(reader_set_update_mode(Dev, EPD_MODE_FULL,
                                                         ok).d, "fill", 255))
               /\ fb' = [i \in DOMAIN fb |-> 255]
               /\ fb_mmap' = FALSE
               /\ fb_file' = FALSE
          ELSE /\ fb_mmap' = FALSE
               /\ fb_file' = FALSE
               /\ UNCHANGED <<fb, log, mode, sleeping>>
    /\ pc' = "closed"
    /\ res' = [raised |-> "none"]
    /\ loc' = [loc EXCEPT !.closes = 1]
    /\ UNCHANGED <<prog, width, height, req>>

\* close() of eink_common called again on the closed object
SessionCloseAgain ==
    /\ prog = "session" /\ pc = "closed" /\ req.variant = "common"
    /\ loc.closes < MaxCmds
    /\ \E ok \in BOOLEAN :
          LET c == close(Dev, fb_file, fb_mmap, ok)
          IN  /\ SetDev(c.d)
              /\ fb_mmap' = c.fb_mmap
              /\ fb_file' = c.fb_file
    /\ res' = [raised |-> "none"]
    /\ loc' = [loc EXCEPT !.closes = loc.closes + 1]
    /\ UNCHANGED <<prog, pc, width, height, fb, req>>

NextSession ==
    \/ OpenFramebuffer
    \/ SetupFramebuffer
    \/ GetDisplayInfo
    \/ SessionSetUpdateMode
    \/ SessionClose
    \/ SessionCloseAgain

SpecSession == InitSession /\ [][NextSession]_vars

----------------------------------------------------------------------------
(* The example programs, each run in a session of its own.                 *)

Init ==
    InitRecovery \/ InitGif \/ InitDemo \/ InitReader \/ InitWeather
        \/ InitImage

Next ==
    \/ RecoveryReset
    \/ RecoveryStatement
    \/ RecoveryPrompt
    \/ CloseCommon
    \/ GifMain
    \/ GifClearMode
    \/ GifClearFill
    \/ GifClearUpdate
    \/ GifSetMode
    \/ GifSetPartialArea
    \/ GifWhile
    \/ GifFor
    \/ GifGhostClear
    \/ GifDrawFrame
    \/ GifUpdate
    \/ GifSleep
    \/ GifFinalMode
    \/ GifFinalFill
    \/ GifFinalUpdate
    \/ GifDeepSleep
    \/ GifInterrupt
    \/ GifClose
    \/ DemoFullMode
    \/ DemoClear
    \/ DemoDrawBase
    \/ DemoBaseUpdate
    \/ DemoPartialMode
    \/ DemoSetPartialArea
    \/ DemoDrawCounter
    \/ DemoCounterUpdate
    \/ DemoInnerReset
    \/ DemoInnerMode
    \/ DemoInnerUpdate
    \/ DemoOuterReset
    \/ DemoFinally
    \/ DemoClose
    \/ ReaderFullMode
    \/ ReaderRenderFirst
    \/ ReaderPartialMode
    \/ ReaderCommand
    \/ ReaderSetPartialArea
    \/ ReaderInterrupt
    \/ ReaderCleanup
    \/ WeatherFullMode
    \/ WeatherCreateBaseMap
    \/ WeatherBaseMapMode
    \/ WeatherInterrupt
    \/ ImageSetMode
    \/ ImageClear
    \/ ImageDraw
    \/ ImageUpdate
    \/ ImageClose

Spec == Init /\ [][Next]_vars

----------------------------------------------------------------------------
(* Claims about the command sequences.                                     *)

CmdArg(e) == <<e.cmd, e.arg>>
Commands(l) == [i \in DOMAIN l |-> CmdArg(l[i])]
AllOk(l) == \A i \in DOMAIN l : l[i].ok
AllBytes(buf, b) == \A i \in DOMAIN buf : buf[i] = b

\* C2: once deep sleep has been entered, the only command issued to the
\* device is a set-mode back to Full; closing the session issues none.
C2_NoCommandWhileSleeping ==
    \A i \in DOMAIN log :
        (log[i].dev /\ log[i].asleep) =>
            (log[i].cmd = "set_mode" /\ log[i].arg = EPD_MODE_FULL)

\* The log entry is a write to the mapped buffer.
IsBufferWrite(e) == ~e.dev /\ e.cmd \in {"fill", "ghost", "frame", "page"}

\* Before entry i of the log a Full-mode frame was committed: a successful
\* set-mode Full, then a buffer write, then a successful update in Full mode.
FullFrameCommittedBefore(i) ==
    \E a, b, c \in 1 .. (i - 1) :
        /\ a < b /\ b < c
        /\ log[a].cmd = "set_mode" /\ log[a].arg = EPD_MODE_FULL /\ log[a].ok
        /\ IsBufferWrite(log[b])
        /\ log[c].cmd = "update" /\ log[c].ok /\ log[c].m = EPD_MODE_FULL

\* C23: in each example program a set-mode Partial command is issued only
\* after a Full-mode frame has been committed in the same session, that is
\* after set-mode Full, a buffer write and a successful trigger-update.
C23_PartialAfterCommittedFull ==
    \A i \in DOMAIN log :
        (log[i].dev /\ log[i].cmd = "set_mode"
            /\ log[i].arg = EPD_MODE_PARTIAL) =>
            FullFrameCommittedBefore(i)

\* The terminal sequence of the animation driver.
TerminalSequence ==
    << <<"set_mode", EPD_MODE_FULL>>, <<"fill", 255>>, <<"update", 0>> >>

\* C1: whenever display_gif, run with partial updates and more than one
\* frame, stops by loop-count exhaustion or by a KeyboardInterrupt that
\* arrives after it has issued a command, the last things it did are
\* set-mode Full, fill white, trigger update.
C1_CleanupNeverSkipped ==
    (prog = "gif" /\ PartialAnimation
        /\ loc.driver \in {"returned", "cancelled"}
        /\ loc.end > loc.begin) =>
        /\ loc.end >= loc.begin + 3
        /\ Commands(SubSeq(log, loc.end - 2, loc.end)) = TerminalSequence

\* C3: a set-update-mode command that fails while Full -> Partial is
\* requested is reported to the caller and leaves the mode Full, and the
\* caller does not go on to issue partial-update commands.
C3_FailedPartialSwitchReported ==
    \A i \in DOMAIN log :
        (log[i].cmd = "set_mode" /\ log[i].arg = EPD_MODE_PARTIAL
            /\ ~log[i].ok /\ log[i].m = EPD_MODE_FULL) =>
            /\ log[i].reported
            /\ (IF i < Len(log) THEN log[i + 1].m ELSE mode) = EPD_MODE_FULL
            /\ \A j \in (i + 1) .. Len(log) : log[j].cmd # "set_partial_area"

\* C13: while the mapping of a session is open, after whatever commands,
\* fills, blits and page writes the program has done, the buffer has
\* exactly stride * height bytes, stride = ceil(width / 8).
C13_BufferLength ==
    (prog \in {"recovery", "gif", "demo", "reader", "weather", "image"}
        /\ fb_mmap) =>
        DOMAIN fb = 0 .. (((width + 7) \div 8) * height - 1)

\* An animation on a canvas whose width is not a multiple of 8 has filled,
\* blitted and updated.
C13_Witness ==
    /\ prog = "gif" /\ pc = "sleep" /\ fb_mmap
    /\ width % 8 # 0
    /\ \E i \in DOMAIN log : log[i].cmd = "fill"
    /\ \E i \in DOMAIN log : log[i].cmd = "frame"
    /\ \E i \in DOMAIN fb : fb[i] # 165

\* C14: once reset_display has returned, the device is in Full mode,
\* whatever mode it was in before.  (A reset_display call leaves one log
\* entry when the RESET command failed and two when it succeeded.)
C14_FullAfterReset ==
    \A i \in DOMAIN log :
        log[i].cmd = "reset" =>
            LET last == IF log[i].ok THEN i + 1 ELSE i
            IN  (IF last < Len(log) THEN log[last + 1].m ELSE mode)
                    = EPD_MODE_FULL

\* The set-update-mode commands among the first n log entries.
SetModeCommands(n) == {i \in 1 .. n : log[i].cmd = "set_mode"}

\* C15: every mode transition a program asks for is issued as exactly one
\* set-update-mode command (the dashboard has issued as many as it has
\* asked for transitions), and a commit-base-map command comes only after
\* the set-mode BaseMap command of its transition, with no other set-mode
\* command in between.
C15_OneCommandPerTransition ==
    /\ prog = "weather" =>
          Cardinality(SetModeCommands(Len(log))) = loc.transitions
    /\ \A i \in DOMAIN log :
          log[i].cmd = "set_base_map" =>
              \E j \in 1 .. (i - 1) :
                  /\ log[j].cmd = "set_mode"
                  /\ log[j].arg = EPD_MODE_BASE_MAP
                  /\ \A k \in (j + 1) .. (i - 1) : log[k].cmd # "set_mode"

\* What a recovery run issues when every command succeeds: the hardware
\* reset (reset_display(): RESET and its own return to Full), then the
\* black and white Full / BaseMap passes.
ExpectedRecoveryCommands ==
    << <<"reset", 0>>, <<"set_mode", EPD_MODE_FULL>>,
       <<"set_mode", EPD_MODE_FULL>>, <<"fill", 0>>, <<"update", 0>>,
       <<"set_mode", EPD_MODE_BASE_MAP>>, <<"update", 0>>,
       <<"set_mode", EPD_MODE_FULL>>, <<"fill", 255>>, <<"update", 0>>,
       <<"set_mode", EPD_MODE_BASE_MAP>>, <<"update", 0>>,
       <<"set_mode", EPD_MODE_FULL>>, <<"fill", 255>>, <<"update", 0>>,
       <<"set_mode", EPD_MODE_BASE_MAP>>, <<"update", 0>>,
       <<"set_mode", EPD_MODE_FULL>> >>

\* C4: in a recovery run where every device command succeeds the commands
\* are issued in the order reset; Full, fill black, update; BaseMap (over
\* the black buffer), update; Full, fill white, update; BaseMap (over the
\* white buffer), update; the same white pass again; Full.  At the end the
\* mode is Full and every buffer byte is 0xFF.
C4_RecoveryOrder ==
    (prog = "recovery" /\ AllOk(log)) =>
        /\ (pc = "script" /\ loc.i \in {4, 5}) => AllBytes(fb, 0)
        /\ (pc = "script" /\ loc.i \in {9, 10, 14, 15}) => AllBytes(fb, 255)
        /\ pc = "script" =>
              Commands(log) = SubSeq(ExpectedRecoveryCommands, 1, Len(log))
        /\ pc = "prompt" =>
              /\ Commands(log) = ExpectedRecoveryCommands
              /\ mode = EPD_MODE_FULL
              /\ AllBytes(fb, 255)

\* A recovery run that got through the whole sequence without a failure.
C4_Witness ==
    /\ prog = "recovery" /\ pc = "prompt" /\ AllOk(log)
    /\ Len(log) = 18
    /\ loc.step = 9

\* The BaseMap commit of the black canvas (step 3 of the written sequence,
\* announced as [4/9] by the program) is the first thing that fails: its
\* set-mode command (log entry 6) or its update (log entry 7).
FailsAtBaseMapSetMode ==
    /\ prog = "recovery" /\ Len(log) >= 6
    /\ AllOk(SubSeq(log, 1, 5)) /\ ~log[6].ok
FailsAtBaseMapUpdate ==
    /\ prog = "recovery" /\ Len(log) >= 7
    /\ AllOk(SubSeq(log, 1, 6)) /\ ~log[7].ok

\* C5 as stated: when recovery fails only at the BaseMap commit, it reports
\* the failure at that step and the update mode afterwards equals the mode
\* from before the sequence started.
C5_ModeUnchangedAfterFailedCommit ==
    (FailsAtBaseMapSetMode \/ FailsAtBaseMapUpdate) =>
        /\ res.ret = "False"
        /\ loc.step = 4
        /\ mode = loc.mode0

\* C5 amended: when the set-mode BaseMap command of that step fails,
\* recovery returns False with that step announced, issues no later mode,
\* fill or update command, and the mode equals the mode from before the
\* sequence (Full); when the update of that step fails, recovery returns
\* False in the same way but the mode is left BaseMap.
C5_FailedCommitAborts ==
    /\ FailsAtBaseMapSetMode =>
          /\ res.ret = "False" /\ loc.step = 4
          /\ mode = loc.mode0
          /\ \A j \in 7 .. Len(log) : log[j].cmd = "clear_display"
    /\ FailsAtBaseMapUpdate =>
          /\ res.ret = "False" /\ loc.step = 4
          /\ mode = EPD_MODE_BASE_MAP
          /\ \A j \in 8 .. Len(log) : log[j].cmd = "clear_display"

\* Recovery has ended after the set-mode BaseMap command failed.
C5_Witness ==
    /\ FailsAtBaseMapSetMode
    /\ pc = "done"
    /\ res.ret = "False"
    /\ Len(log) = 7

\* Entry i of the log is a hardware command of the recovery sequence (the
\* clear-display command belongs to the close that follows the return).
SequenceCommand(i) == log[i].dev /\ log[i].cmd # "clear_display"

\* C25: the recovery procedure returns True only if every hardware command
\* of the sequence, the initial reset included, succeeded; if any command
\* fails it returns False and issues none of the later steps' mode, fill
\* or update commands.
C25_SuccessOnlyIfAllSucceeded ==
    (prog = "recovery" /\ pc \in {"exit", "done"}) =>
        /\ res.ret = "True" =>
              \A i \in DOMAIN log : SequenceCommand(i) => log[i].ok
        /\ \A i \in DOMAIN log :
              (SequenceCommand(i) /\ ~log[i].ok) =>
                  /\ res.ret = "False"
                  /\ \A j \in (i + 1) .. Len(log) :
                        log[j].cmd \notin {"set_mode", "fill", "update"}

\* C6: when the hardware reset command of step 1 fails, the sysfs force
\* reset is attempted exactly once; recovery aborts if that fails too and
\* goes on with step 2 if it succeeds.
C6_FallbackAfterFailedReset ==
    (prog = "recovery" /\ pc # "reset" /\ ~log[1].ok) =>
        /\ loc.fallback = 1
        /\ IF loc.fallback_ok
           THEN pc = "script" \/ Len(log) > 1
           ELSE res.ret = "False" /\ \A j \in 2 .. Len(log) :
                                          log[j].cmd = "clear_display"

----------------------------------------------------------------------------
(* Claims about the animation driver (display_gif with partial updates and *)
(* more than one frame).                                                   *)

\* What display_gif issues before the frame loop.
AnimationPrologue ==
    << <<"set_mode", EPD_MODE_FULL>>, <<"fill", 255>>, <<"update", 0>>,
       <<"set_mode", EPD_MODE_PARTIAL>>, <<"set_partial_area", 0>> >>

\* The log entries with command c.
Entries(c) == {i \in DOMAIN log : log[i].cmd = c}

\* C16: the animation driver does one Full-mode clear (set-mode Full, fill
\* white, update), then enters Partial and sets the partial area; these
\* come before the first frame, and set-partial-area is issued nowhere
\* else: not between frames and not between loop passes.
C16_ClearAndAreaOnce ==
    (prog = "gif" /\ PartialAnimation) =>
        /\ \A k \in 1 .. Min(5, Len(log) - loc.begin) :
              CmdArg(log[loc.begin + k]) = AnimationPrologue[k]
        /\ \A i \in Entries("set_partial_area") : i = loc.begin + 5
        /\ \A i \in Entries("ghost") \cup Entries("frame") :
              /\ i > loc.begin + 5
              /\ AllOk(SubSeq(log, loc.begin + 1, loc.begin + 5))
        /\ \A i \in Entries("fill") :
              i = loc.begin + 2 \/ i > loc.begin + 5

\* The second pass of a three-frame animation is under way.
C16_Witness ==
    /\ prog = "gif" /\ PartialAnimation
    /\ req.nframes = 3 /\ loc.loop_count = 1 /\ pc = "sleep" /\ loc.i = 2
    /\ Cardinality(Entries("set_partial_area")) = 1
    /\ Cardinality(Entries("frame")) = 5

\* C17: for every frame the animation driver shows, a white rectangle of
\* the frame's size is blitted at the frame's position first, then the
\* frame, then one update is triggered, then the driver waits; no update
\* comes between the two blits, and the next frame starts only after the
\* wait.
C17_GhostClearThenFrame ==
    (prog = "gif" /\ PartialAnimation) =>
        /\ \A i \in Entries("frame") :
              /\ i > 1
              /\ log[i - 1].cmd = "ghost"
              /\ log[i - 1].arg = log[i].arg
              /\ log[i - 1].rect = log[i].rect
              /\ log[i].rect.w = req.fw /\ log[i].rect.h = req.fh
              /\ i < Len(log) => log[i + 1].cmd \in {"update", "set_mode"}
        /\ \A i \in Entries("ghost") :
              /\ log[i - 1].cmd \in {"set_partial_area", "sleep"}
              /\ i < Len(log) => log[i + 1].cmd \in {"frame", "set_mode"}
        /\ \A i \in Entries("sleep") :
              /\ log[i - 1].cmd = "update" /\ log[i - 1].ok
              /\ log[i - 2].cmd = "frame" /\ log[i - 2].arg = log[i].arg
              /\ i < Len(log) => log[i + 1].cmd \in {"ghost", "set_mode"}
        /\ \A i \in Entries("update") :
              (log[i - 1].cmd = "frame" /\ log[i].ok /\ i < Len(log)) =>
                  log[i + 1].cmd \in {"sleep", "set_mode"}
        /\ pc = "draw" =>
              LET r == log[Len(log)].rect
              IN  \A px \in 0 .. (r.w - 1) : \A py \in 0 .. (r.h - 1) :
                      get_pixel(fb, width, height, r.x + px, r.y + py)
                          = [some |-> TRUE, val |-> 1]

\* The second frame of an 8-pixel-wide animation has been shown on the
\* widest canvas and the driver is waiting.
C17_Witness ==
    /\ prog = "gif" /\ PartialAnimation
    /\ pc = "sleep" /\ loc.i = 2
    /\ req.fw = 8 /\ width = MaxWidth
    /\ Cardinality(Entries("ghost")) = 2
    /\ Cardinality(Entries("update")) = 3

\* How far a statement is from the end of its stretch of the program.
PcRank ==
    [main |-> 6, clear_mode |-> 5, clear_fill |-> 4, clear_update |-> 3,
     set_mode |-> 2, set_area |-> 1, while |-> 0,
     for |-> 6, ghost |-> 5, draw |-> 4, update |-> 3, sleep |-> 2,
     final_mode |-> 5, final_fill |-> 4, final_update |-> 3,
     deep_sleep |-> 2, exit |-> 1, done |-> 0]

\* An upper bound on the steps left for a run with loop count > 0: the
\* passes still to make, the frames still to show in this pass, the
\* statements still to run for this frame.
StepsLeft ==
    LET PerFrame == 5
        PerPass == PerFrame * req.nframes + 7
        AfterLoop == 10
    IN  IF pc \in {"final_mode", "final_fill", "final_update", "deep_sleep",
                   "exit", "done"}
        THEN PcRank[pc]
        ELSE IF pc \in {"for", "ghost", "draw", "update", "sleep"}
        THEN AfterLoop + (req.loops - loc.loop_count - 1) * PerPass
                 + PerFrame * (req.nframes + 1 - loc.i) + PcRank[pc]
        ELSE AfterLoop + (req.loops - loc.loop_count) * PerPass + PcRank[pc]

\* Where the loop of a run with loop count > 0 stands.
LoopCountState ==
    prog = "gif" =>
        /\ req.loops > 0 => loc.loop_count <= req.loops
        /\ loc.stop = "exhausted" =>
              /\ req.loops > 0
              /\ loc.loop_count = req.loops
              /\ Cardinality(Entries("sleep")) =
                    IF req.fw <= width /\ req.fh <= height
                    THEN req.loops * req.nframes ELSE 0
        /\ (req.loops = 0 /\ loc.driver = "running"
               /\ pc \in {"final_mode", "final_fill", "final_update"}) =>
              loc.stop = "cancelled"
        /\ (req.loops = 0 /\ loc.driver = "returned") => loc.stop = "cancelled"
        /\ req.loops > 0 => StepsLeft \in Nat

\* C18: with loop count N > 0 the frame loop is left by exhaustion exactly
\* after N passes, every frame having been shown N times, and the run
\* terminates: the number of steps left is a natural number that every
\* step of the program makes smaller.  With loop count 0 the loop is left
\* only by cancellation.
C18_LoopCount ==
    /\ []LoopCountState
    /\ [][(prog = "gif" /\ req.loops > 0) => StepsLeft' < StepsLeft]_vars

\* Two passes over three frames ran to the end.
C18_Witness ==
    /\ prog = "gif" /\ req.loops = 2 /\ req.nframes = 3
    /\ loc.stop = "exhausted" /\ loc.driver = "returned"
    /\ Cardinality(Entries("sleep")) = 6

\* C19: the animation driver with 3 frames and loops = 2, cancelled during
\* the first pass, every command succeeding: when display_gif has
\* returned, the mode is Full and every byte of the buffer is 0xFF.
C19_CancelledMidLoop ==
    (prog = "gif" /\ PartialAnimation
        /\ req.nframes = 3 /\ req.loops = 2
        /\ loc.stop = "cancelled" /\ loc.loop_count = 0
        /\ loc.driver = "returned" /\ pc = "deep_sleep"
        /\ AllOk(log)) =>
        /\ mode = EPD_MODE_FULL
        /\ AllBytes(fb, 255)

\* The cancellation came after the first frame had been drawn.
C19_Witness ==
    /\ prog = "gif" /\ PartialAnimation
    /\ req.nframes = 3 /\ req.loops = 2 /\ req.fw = 8
    /\ loc.stop = "cancelled" /\ loc.loop_count = 0
    /\ loc.driver = "returned" /\ pc = "deep_sleep"
    /\ AllOk(log)
    /\ Cardinality(Entries("frame")) = 2
    /\ Cardinality(Entries("sleep")) = 1
    /\ mode = EPD_MODE_FULL

\* The partial-update rectangle the device was given.
HasSentArea ==
    \E i \in DOMAIN log : log[i].cmd = "set_partial_area" /\ log[i].ok
SentArea ==
    log[CHOOSE i \in DOMAIN log :
            log[i].cmd = "set_partial_area" /\ log[i].ok].rect

\* The pixels a blit of rectangle r writes: draw_image stops at the right
\* and bottom edge of the canvas.
Written(r) ==
    Rect(r.x, r.y, Min(r.w, width - r.x), Min(r.h, height - r.y))

InsideRect(a, b) ==
    /\ a.x >= b.x /\ a.x + a.w <= b.x + b.w
    /\ a.y >= b.y /\ a.y + a.h <= b.y + b.h

\* Pixel (column c, row r) lies in rectangle b.
PixelInRect(c, r, b) ==
    /\ c >= b.x /\ c < b.x + b.w
    /\ r >= b.y /\ r < b.y + b.h

\* Every blit of the log wrote inside the sent rectangle, and each frame
\* blit follows a ghost-clear blit of exactly the same pixels.
BlitsInsideSentArea ==
    (prog = "gif" /\ PartialAnimation) =>
        \A i \in DOMAIN log :
            log[i].cmd \in {"ghost", "frame"} =>
                /\ HasSentArea
                /\ InsideRect(Written(log[i].rect), SentArea)
                /\ log[i].cmd = "frame" =>
                      /\ i > 1 /\ log[i - 1].cmd = "ghost"
                      /\ Written(log[i - 1].rect) = Written(log[i].rect)

\* A blit step changes no pixel of the buffer outside the sent rectangle.
BlitChangesOnlySentArea ==
    (prog = "gif" /\ PartialAnimation /\ pc \in {"ghost", "draw"}) =>
        \A i \in DOMAIN fb : \A k \in 0 .. 7 :
            BitOf(fb'[i], k) # BitOf(fb[i], k) =>
                /\ HasSentArea
                /\ PixelInRect(8 * (i % bytes_per_line(width)) + (7 - k),
                               i \div bytes_per_line(width), SentArea)

\* C27: in the animation driver every pixel written by a ghost-clear blit
\* or a frame blit lies inside the partial-update rectangle that was sent
\* to the device, for every frame size and canvas size, and the
\* ghost-clear rectangle covers exactly the region the frame blit writes.
C27_BlitsInsidePartialArea ==
    /\ []BlitsInsideSentArea
    /\ [][BlitChangesOnlySentArea]_vars

\* A frame with black pixels has been blitted away from the left and top
\* edge of the wide canvas, after its ghost clear.
C27_Witness ==
    /\ prog = "gif" /\ PartialAnimation /\ pc = "update"
    /\ HasSentArea /\ SentArea.x > 0 /\ SentArea.y > 0
    /\ Cardinality(Entries("ghost")) = 2
    /\ Cardinality(Entries("frame")) = 2
    /\ \E i \in DOMAIN fb : fb[i] # 255

----------------------------------------------------------------------------
(* Claims about the partial-update demo.                                   *)

\* Entry i of the log is the partial update that failed: the first failed
\* command of the run, a set-partial-area or an update of the counter loop.
FailedPartialUpdate(i) ==
    /\ ~log[i].ok
    /\ \A j \in 1 .. (i - 1) : log[j].ok
    /\ \/ log[i].cmd = "set_partial_area"
       \/ /\ log[i].cmd = "update"
          /\ \E j \in 1 .. (i - 1) : log[j].cmd = "set_partial_area"

EntriesAfter(i, c) == {j \in (i + 1) .. Len(log) : log[j].cmd = c}

\* The last mode command of the log is set-mode Full.
LastModeCommandIsFull ==
    \E i \in DOMAIN log :
        /\ log[i].cmd = "set_mode" /\ log[i].arg = EPD_MODE_FULL
        /\ \A j \in (i + 1) .. Len(log) : log[j].cmd # "set_mode"

\* After entry i no set-partial-area and no update in Partial mode is issued.
NoPartialUpdateAfter(i) ==
    \A j \in (i + 1) .. Len(log) :
        /\ log[j].cmd # "set_partial_area"
        /\ log[j].cmd = "update" => log[j].m # EPD_MODE_PARTIAL

DemoEnded == prog = "demo" /\ pc \in {"exit", "done"}

\* C28 as stated: demo_partial_update always ends by issuing set-mode Full
\* as its last mode command, and once a partial update has failed no
\* further set-partial-area or partial update is issued: the loop stops
\* after one reset and one Full-mode update.
C28_OneResetOneFullUpdate ==
    DemoEnded =>
        /\ LastModeCommandIsFull
        /\ \A i \in DOMAIN log :
              FailedPartialUpdate(i) =>
                  /\ NoPartialUpdateAfter(i)
                  /\ Cardinality(EntriesAfter(i, "reset")) = 1
                  /\ Cardinality(EntriesAfter(i, "update")) = 1

\* C28 amended: the last mode command is always set-mode Full; after a
\* failed partial update a reset follows at once and no set-partial-area or
\* partial update is issued any more; at most one update follows, in Full
\* mode; when it succeeds that reset is the only one, and when it fails or
\* is not reached (the handler's set-mode Full failed) a second reset
\* follows.
C28_FullLastNoPartialAfterFailure ==
    DemoEnded =>
        /\ LastModeCommandIsFull
        /\ \A i \in DOMAIN log :
              FailedPartialUpdate(i) =>
                  LET resets == EntriesAfter(i, "reset")
                      updates == EntriesAfter(i, "update")
                  IN  /\ NoPartialUpdateAfter(i)
                      /\ i < Len(log) /\ log[i + 1].cmd = "reset"
                      /\ Cardinality(updates) <= 1
                      /\ \A j \in updates : log[j].m = EPD_MODE_FULL
                      /\ IF \E j \in updates : log[j].ok
                         THEN Cardinality(resets) = 1
                         ELSE Cardinality(resets) = 2

\* The third partial update failed, the handler reset the display and made
\* one Full-mode update, and the demo has ended.
C28_Witness ==
    /\ prog = "demo" /\ pc = "done"
    /\ \E i \in DOMAIN log :
          /\ FailedPartialUpdate(i) /\ log[i].cmd = "update"
          /\ Cardinality(EntriesAfter(i, "reset")) = 1
          /\ Cardinality(EntriesAfter(i, "update")) = 1
    /\ Cardinality(Entries("frame")) = 4
    /\ mode = EPD_MODE_FULL

----------------------------------------------------------------------------
(* Claims about the dashboard and the reader.                              *)

\* C29: every way the weather dashboard's run() or the reader's
\* run_interactive() ends (quit command, user interrupt, an error raised
\* after the framebuffer was opened) executes the cleanup: set-mode Full is
\* issued, the buffer is filled with 0xFF, and the mapping and the device
\* are closed.
C29_CleanupOnEveryExit ==
    (prog \in {"weather", "reader"} /\ pc = "done") =>
        /\ Len(log) >= 2
        /\ CmdArg(log[Len(log) - 1]) = <<"set_mode", EPD_MODE_FULL>>
        /\ CmdArg(log[Len(log)]) = <<"fill", 255>>
        /\ AllBytes(fb, 255)
        /\ ~fb_mmap /\ ~fb_file

----------------------------------------------------------------------------
(* Claims about the life of a session.                                     *)

\* The screen-info query failed or answered zero for a dimension.
QueryUnusable ==
    ~req.query.ok \/ req.query.xres = 0 \/ req.query.yres = 0

\* C22: when a session opens the device and the screen-info query fails or
\* returns zero for width or height, the session uses the default geometry
\* 128x250 and still opens (get_display_info answers the defaults); in
\* every open session width > 0 and height > 0.
C22_DefaultGeometryOnFailedQuery ==
    prog = "session" =>
        /\ (req.variant \in {"common", "gif", "demo"} /\ pc # "open"
               /\ QueryUnusable) =>
               /\ pc # "failed"
               /\ width = 128 /\ height = 250
               /\ pc = "opened" => (fb_file /\ fb_mmap)
        /\ (req.variant = "info" /\ pc = "done" /\ QueryUnusable) =>
               (res.width = 128 /\ res.height = 250)
        /\ fb_mmap => (width > 0 /\ height > 0)

\* A mode request is made on a closed session in this step.
RequestOnClosed ==
    prog = "session" /\ pc = "closed" /\ loc'.requests = loc.requests + 1

\* C24: after a session has been closed, every mode-transition request on
\* it fails with an error and sends no command to the device.
C24_ClosedSessionRejectsRequests ==
    [][RequestOnClosed => (res'.raised # "none" /\ log' = log)]_vars

CommonSession == prog = "session" /\ req.variant = "common"

\* Once close() has returned, both handles are unset and the one command
\* it issued is the clear-display command, the last entry of the log kept
\* since.
ClosedReleasedBoth ==
    (CommonSession /\ pc = "closed") =>
        /\ ~fb_mmap /\ ~fb_file
        /\ Cardinality(Entries("clear_display")) = 1
        /\ log[Len(log)].cmd = "clear_display"

\* The first close() issues the clear-display command and releases both
\* handles whether or not the command succeeded.
FirstCloseReleases ==
    (CommonSession /\ pc = "opened" /\ pc' = "closed") =>
        /\ Len(log') = Len(log) + 1
        /\ log'[Len(log')].cmd = "clear_display"
        /\ SubSeq(log', 1, Len(log)) = log
        /\ ~fb_mmap' /\ ~fb_file'

\* A second close() issues no command and changes nothing.
SecondCloseChangesNothing ==
    (CommonSession /\ pc = "closed" /\ loc'.closes = loc.closes + 1) =>
        /\ log' = log
        /\ <<fb, mode, sleeping, width, height>>'
               = <<fb, mode, sleeping, width, height>>
        /\ fb_mmap' = fb_mmap /\ fb_file' = fb_file

\* C30: EInkDisplay.close() of the common module always releases both the
\* memory mapping and the device file, also when the clear-display command
\* it issues first fails; after it returns both handles are unset, and a
\* second close() issues no device command and changes nothing.
C30_CloseReleasesAndIsIdempotent ==
    /\ []ClosedReleasedBoth
    /\ [][FirstCloseReleases /\ SecondCloseChangesNothing]_vars

\* close() was called twice on a session whose clear-display command failed.
C30_Witness ==
    /\ CommonSession /\ pc = "closed"
    /\ loc.closes = 2
    /\ ~log[Len(log)].ok
    /\ ~fb_mmap /\ ~fb_file

----------------------------------------------------------------------------
(* Claims about the partial-area geometry.                                 *)

\* The rectangle invariant of a validated partial area.
ValidRect(r, cw, ch) ==
    /\ r.x % 8 = 0 /\ r.w % 8 = 0
    /\ r.w >= 8 /\ r.h >= 1
    /\ r.x >= 0 /\ r.y >= 0
    /\ r.x + r.w <= cw
    /\ r.y + r.h <= ch

\* C7: for every requested rectangle and every canvas size, the rectangle
\* that partial-area validation (set_partial_area of eink_common and of
\* gif.py) sends to the device is byte-aligned, at least 8x1 and inside the
\* canvas.
C7_SentRectangleValid ==
    (prog = "geom" /\ pc = "done" /\ req.op \in {"common", "validate", "gif"}
        /\ res.sent) =>
        ValidRect(res.rect, width, height)

\* C8: partial-area validation (validate_byte_alignment followed by
\* set_partial_area) fails with a geometry error exactly when no rectangle
\* of at least 8x1 pixels fits inside the canvas, and then sends nothing; a
\* request that is only unaligned or out of range is corrected and sent.
C8_FailsOnlyWhenNothingFits ==
    (prog = "geom" /\ pc = "done" /\ req.op = "validate") =>
        IF width < 8 \/ height < 1
        THEN res.raised = "ValueError" /\ ~res.sent
        ELSE res.raised = "none" /\ res.sent

\* a is the greatest multiple of 8 that is <= x
GreatestMultipleBelow(a, x) == a % 8 = 0 /\ a <= x /\ x < a + 8

\* a is the least multiple of 8 that is >= w
LeastMultipleAbove(a, w) == a % 8 = 0 /\ a >= w /\ w > a - 8

\* The routine that has just run aligned the pair (x, w) to (ax, aw).
AlignedAs(x, w, ax, aw) ==
    GreatestMultipleBelow(ax, x) /\ LeastMultipleAbove(aw, w)

\* C21: every partial-area alignment routine (validate_byte_alignment, the
\* set_partial_area of gif.py and of eink_reader.py) maps a non-negative x
\* to the greatest multiple of 8 that is <= x and a non-negative width to
\* the least multiple of 8 that is >= width.  The set_partial_area variants
\* are observed through the rectangle they send, where clipping to the
\* canvas did not change the aligned width.
C21_AlignsDownAndUp ==
    [][(prog = "geom" /\ pc = "call" /\ req.x >= 0 /\ req.w >= 0) =>
          /\ (req.op = "validate" /\ pc' = "aligned") =>
                 AlignedAs(req.x, req.w, req'.x, req'.w)
          /\ (req.op = "gif" /\ pc' = "done" /\ res'.sent
                 /\ align_down(req.x) + align_up(req.w) <= width) =>
                 AlignedAs(req.x, req.w, res'.rect.x, res'.rect.w)
          /\ (req.op = "reader" /\ pc' = "done" /\ res'.sent) =>
                 AlignedAs(req.x, req.w, res'.rect.x, res'.rect.w)]_vars

\* The columns ax .. ax + aw - 1 include the columns x .. x + w - 1.
CoversColumns(x, w, ax, aw) == ax <= x /\ ax + aw >= x + w

\* C26: for every requested x >= 0 and width >= 1 the rectangle produced by
\* byte alignment (validate_byte_alignment, the alignment of gif.py's
\* set_partial_area where clipping did not change the aligned width) covers
\* the requested one horizontally: aligned_x <= x and
\* aligned_x + aligned_width >= x + width.
C26_AlignmentCoversRequest ==
    [][(prog = "geom" /\ pc = "call" /\ req.x >= 0 /\ req.w >= 1) =>
          /\ (req.op = "validate" /\ pc' = "aligned") =>
                 CoversColumns(req.x, req.w, req'.x, req'.w)
          /\ (req.op = "gif" /\ pc' = "done" /\ res'.sent
                 /\ align_down(req.x) + align_up(req.w) <= width) =>
                 CoversColumns(req.x, req.w, res'.rect.x, res'.rect.w)]_vars


----------------------------------------------------------------------------
(* Claims about the canvas.                                                *)

\* The buffer the routine started from.
FbBefore == FilledBuffer(width, height, req.fill)

\* The canvas pixel a bit of the buffer holds: byte i, bit b (7 = leftmost).
PixelX(i, b) == (i % bytes_per_line(width)) * 8 + (7 - b)
PixelY(i) == i \div bytes_per_line(width)

\* C9: blit (draw_image) changes only bits of canvas pixels (cx, cy) inside
\* the destination rectangle [dest_x, dest_x + src_width) x [dest_y, dest_y +
\* src_height) clipped to the canvas, for every source size and every
\* offset, negative ones included; every other bit keeps its value.
C9_BlitOnlyInsideDestination ==
    (prog = "canvas" /\ pc = "done" /\ req.op = "draw_image") =>
        \A i \in DOMAIN fb : \A b \in 0 .. 7 :
            BitOf(fb[i], b) # BitOf(FbBefore[i], b) =>
                /\ req.x <= PixelX(i, b) /\ PixelX(i, b) < req.x + req.img.w
                /\ req.y <= PixelY(i) /\ PixelY(i) < req.y + req.img.h
                /\ 0 <= PixelX(i, b) /\ PixelX(i, b) < width
                /\ 0 <= PixelY(i) /\ PixelY(i) < height

\* C11: draw_pixel(x, y, color) leaves the buffer as it was when (x, y) is
\* outside [0, width) x [0, height); otherwise the only bit that may differ
\* is bit 7 - (x % 8) of byte y * stride + x div 8.
C11_DrawPixelFrame ==
    (prog = "canvas" /\ pc \in {"drawn", "done"} /\ req.op = "draw_pixel") =>
        /\ DOMAIN fb = DOMAIN FbBefore
        /\ \A i \in DOMAIN fb : fb[i] \in 0 .. 255
        /\ IF req.x < 0 \/ req.x >= width \/ req.y < 0 \/ req.y >= height
           THEN fb = FbBefore
           ELSE \A i \in DOMAIN fb : \A b \in 0 .. 7 :
                   BitOf(fb[i], b) # BitOf(FbBefore[i], b) =>
                       /\ i = req.y * ((width + 7) \div 8) + (req.x \div 8)
                       /\ b = 7 - (req.x % 8)

\* A white pixel was drawn into a black buffer, in the second byte of the
\* second row.
C11_Witness ==
    /\ prog = "canvas" /\ pc = "drawn" /\ req.op = "draw_pixel"
    /\ width = 9 /\ height = 2 /\ req.x = 8 /\ req.y = 1
    /\ req.color = 1 /\ req.fill = 0
    /\ fb[3] = 128

\* C12: clear(color) makes every byte 0xFF for a non-zero colour and 0x00
\* for colour 0, whatever the buffer held; so a second clear leaves exactly
\* what it would have left alone (white then black equals black).
C12_ClearOverwrites ==
    /\ (prog = "canvas" /\ req.op \in {"clear", "clear_twice"}
           /\ pc \in {"cleared", "done"}) =>
          LET c == IF req.op = "clear_twice" /\ pc = "done"
                   THEN req.color2 ELSE req.color
          IN  /\ DOMAIN fb = DOMAIN FbBefore
              /\ \A i \in DOMAIN fb : fb[i] = IF c # 0 THEN 255 ELSE 0
    /\ (prog = "canvas" /\ req.op = "clear_twice" /\ pc = "done") =>
          fb = clear(FbBefore, req.color2)

\* White was filled over a mixed buffer and then black over that.
C12_Witness ==
    /\ prog = "canvas" /\ pc = "done" /\ req.op = "clear_twice"
    /\ req.fill = 165 /\ req.color = 255 /\ req.color2 = 0
    /\ AllBytes(fb, 0)
    /\ width = MaxWidth /\ height = MaxHeight

\* The scenario: 128x250, draw_pixel(0, 0, 0) then draw_pixel(7, 0, 1), done.
BlackThenWhiteInByte0 ==
    /\ prog = "canvas" /\ req.op = "draw_pixels" /\ pc = "done"
    /\ width = 128 /\ height = 250
    /\ req.first = [x |-> 0, y |-> 0, color |-> 0]
    /\ req.second = [x |-> 7, y |-> 0, color |-> 1]

\* C20 as stated: on a 128x250 canvas draw_pixel(0, 0, 0) followed by
\* draw_pixel(7, 0, 1) leaves byte 0 of row 0 equal to 0x7F.
C20_Byte0Is7F ==
    BlackThenWhiteInByte0 => fb[0] = 127

\* C20 amended: the two calls leave byte 0 with bit 7 clear, bit 0 set and
\* bits 6..1 as they were, and every other byte as it was; byte 0 is 0x7F
\* exactly when bits 6..1 were set before, as on an all-white canvas.
C20_Byte0KeepsMiddleBits ==
    BlackThenWhiteInByte0 =>
        LET b == FbBefore[0]
        IN  /\ fb[0] = (b % 128) - (b % 2) + 1
            /\ \A i \in DOMAIN fb \ {0} : fb[i] = FbBefore[i]
            /\ DOMAIN fb = DOMAIN FbBefore
            /\ (fb[0] = 127) <=> ((b % 128) \div 2 = 63)
            /\ req.fill = 255 => fb[0] = 127

\* The scenario was run on an all-white canvas.
C20_Witness ==
    /\ BlackThenWhiteInByte0
    /\ req.fill = 255
    /\ fb[0] = 127 /\ fb[1] = 255

\* C10: get_pixel(x, y) right after draw_pixel(x, y, color) returns color,
\* for every in-bounds (x, y), color in {0, 1} and prior buffer content.
C10_PixelRoundTrip ==
    (prog = "canvas" /\ pc = "done" /\ req.op = "draw_pixel"
        /\ req.color \in {0, 1}
        /\ 0 <= req.x /\ req.x < width /\ 0 <= req.y /\ req.y < height) =>
        res = [some |-> TRUE, val |-> req.color, raised |-> FALSE]

\* A black pixel was written over a set bit and read back.
C10_Witness ==
    /\ prog = "canvas" /\ pc = "done" /\ req.op = "draw_pixel"
    /\ req.color = 0 /\ req.fill = 255
    /\ req.x = 3 /\ req.y = 1
    /\ fb # FbBefore
    /\ res.some /\ res.val = 0

====
